---- MODULE Spec2Model ----
(***************************************************************************)
(* Model of loon, a client for the RAVEn(TM) smart-meter XML API:          *)
(*   - the capture worker Loon._get_responses, which reassembles the       *)
(*     lines read from the serial transport into raw records,              *)
(*   - the record decoder Parser.__new__ with the field codecs of          *)
(*     formatter.py and the response catalog of parser.py.                 *)
(*                                                                         *)
(* Wire text is a sequence of one-character strings, so that parsing is    *)
(* computed character by character.  A line is a sequence of tokens: a     *)
(* start tag <n>, an end tag </n>, or character data that holds no '<'.    *)
(***************************************************************************)
EXTENDS Integers, Sequences, FiniteSets, TLC

VARIABLES
    start_found,     \* _get_responses: a start tag was accepted and not yet closed
    response,        \* _get_responses: the lines buffered for the current record
    responses,       \* Loon.responses: the output deque of decoded records
    alive,           \* the capture thread is running (no exception has left it)
    log,             \* the entries written through logging, oldest first
    hist,            \* the lines the transport has delivered to the worker so far
    pre,             \* start_found and response as they were before the last line
    dispatched,      \* the raw record handed to a parser by the last step, if any
    outcome,         \* what that parser call returned or raised
    use_formatting,  \* Loon._options['use_formatting']
    input,           \* decoder specification: the parser class and raw record under test;
                     \* codec specification: the descriptor and the value or text under test
    encoded,         \* codec specification: what encode returned or raised;
                     \* command specification: what the command call returned or raised
    defaults,        \* Loon._defaults
    pc,              \* decoder specification: "ready" before the call, "done" after;
                     \* codec specification: which call comes next
    written,         \* the texts passed to Loon._serial.write, oldest first
    stop,            \* Loon._stop: the Event is set
    thread,          \* Loon._thread: 0 for None, else the number of a capture thread
    workers,         \* the capture threads created so far: position and locals of each
    callers          \* the threads that call the Loon object: position and locals of each

\* the state of threading
threading == <<stop, thread, workers, callers>>

vars == <<start_found, response, responses, alive, log, hist, pre, dispatched,
          outcome, use_formatting, input, encoded, defaults, pc, written, threading>>

----------------------------------------------------------------------------
(* Bounds *)

\* the number of lines the transport delivers in one behaviour
MaxLines == 4

----------------------------------------------------------------------------
(* Wire text and tokens *)

Open(n)  == [t |-> "open",  n |-> n,  s |-> <<>>]
Close(n) == [t |-> "close", n |-> n,  s |-> <<>>]
Text(s)  == [t |-> "text",  n |-> "", s |-> s]

IsTag(tok) == tok.t \in {"open", "close"}

\* one element on one line: <n>text</n>
Elem(n, s) == IF s = <<>> THEN <<Open(n), Close(n)>> ELSE <<Open(n), Text(s), Close(n)>>

RECURSIVE Flatten(_)
\* ''.join(lines): the tokens of the lines, one after the other
Flatten(lines) ==
    IF lines = <<>> THEN <<>> ELSE Head(lines) \o Flatten(Tail(lines))

RECURSIVE Chars(_)
\* the characters of a line that holds character data only
Chars(line) ==
    IF line = <<>> THEN <<>> ELSE Head(line).s \o Chars(Tail(line))

----------------------------------------------------------------------------
(* Exceptions and results *)

Ok(v) == [kind |-> "ok", exc |-> "", what |-> "", names |-> {}, cause |-> "", value |-> v]

Raise(exc, what, names, cause) ==
    [kind |-> "raise", exc |-> exc, what |-> what, names |-> names, cause |-> cause,
     value |-> <<>>]

NoOutcome == [kind |-> "none", exc |-> "", what |-> "", names |-> {}, cause |-> "",
              value |-> <<>>]

\* typed values
None      == [t |-> "none", v |-> 0]
IntV(i)   == [t |-> "int", v |-> i]
LongV(i)  == [t |-> "long", v |-> i]
StrV(s)   == [t |-> "str", v |-> s]
BoolV(b)  == [t |-> "bool", v |-> b]
DateV(i)  == [t |-> "datetime", v |-> i]
ListV(l)  == [t |-> "list", v |-> l]
DictV(d)  == [t |-> "dict", v |-> d]
\* a str that names an enumeration variant, kept whole
NameV(s)  == [t |-> "name", v |-> s]
TagV(n)   == [t |-> "tag", v |-> n]

----------------------------------------------------------------------------
(* Python integers.  int and long are unbounded: a number is a sign and a     *)
(* magnitude, the magnitude a sequence of base-16 digits, most significant    *)
(* first, without leading zeros; zero has the empty magnitude.                *)

RECURSIVE Strip(_)
\* the digits without leading zeros
Strip(ds) == IF ds # <<>> /\ Head(ds) = 0 THEN Strip(Tail(ds)) ELSE ds

\* the number with the given sign and digits; there is no negative zero
Signed(neg, m) == [neg |-> neg /\ m # <<>>, mag |-> m]
Num(neg, ds) == Signed(neg, Strip(ds))

Front(ds) == SubSeq(ds, 1, Len(ds) - 1)
Last(ds) == IF ds = <<>> THEN 0 ELSE ds[Len(ds)]

RECURSIVE MagOf(_)
\* the magnitude of a natural number of the model
MagOf(i) == IF i = 0 THEN <<>> ELSE Append(MagOf(i \div 16), i % 16)

\* a small integer of the model as a Python integer
FromInt(i) == IF i < 0 THEN Num(TRUE, MagOf(0 - i)) ELSE Num(FALSE, MagOf(i))

RECURSIVE NatOf(_, _)
NatOf(ds, acc) == IF ds = <<>> THEN acc ELSE NatOf(Tail(ds), acc * 16 + Head(ds))

\* numbers below 2^28 are used as integers of the model
Fits(n) == Len(n.mag) <= 7
Small(n) == IF n.neg THEN 0 - NatOf(n.mag, 0) ELSE NatOf(n.mag, 0)

\* a < b on magnitudes
LessMag(a, b) ==
    \/ Len(a) < Len(b)
    \/ /\ Len(a) = Len(b)
       /\ \E i \in 1..Len(a) : a[i] < b[i] /\ \A j \in 1..(i - 1) : a[j] = b[j]

\* x < y
Less(x, y) ==
    CASE x.neg /\ ~y.neg -> TRUE
      [] ~x.neg /\ y.neg -> FALSE
      [] ~x.neg /\ ~y.neg -> LessMag(x.mag, y.mag)
      [] OTHER -> LessMag(y.mag, x.mag)

\* x <= y
Leq(x, y) == x = y \/ Less(x, y)

RECURSIVE AddDigits(_, _, _)
\* a + b + c on magnitudes, c the carry
AddDigits(a, b, c) ==
    IF a = <<>> /\ b = <<>>
    THEN IF c = 0 THEN <<>> ELSE <<c>>
    ELSE Append(AddDigits(Front(a), Front(b), (Last(a) + Last(b) + c) \div 16),
                (Last(a) + Last(b) + c) % 16)

RECURSIVE SubDigits(_, _, _)
\* a - b - c on magnitudes with a >= b + c, c the borrow
SubDigits(a, b, c) ==
    IF a = <<>> THEN <<>>
    ELSE IF Last(a) - Last(b) - c < 0
    THEN Append(SubDigits(Front(a), Front(b), 1), Last(a) - Last(b) - c + 16)
    ELSE Append(SubDigits(Front(a), Front(b), 0), Last(a) - Last(b) - c)

\* x + y
Add(x, y) ==
    IF x.neg = y.neg THEN Num(x.neg, AddDigits(x.mag, y.mag, 0))
    ELSE IF LessMag(x.mag, y.mag) THEN Num(y.neg, SubDigits(y.mag, x.mag, 0))
    ELSE Num(x.neg, SubDigits(x.mag, y.mag, 0))

\* -x, x - y
Neg(x) == Signed(~x.neg, x.mag)
Sub(x, y) == Add(x, Neg(y))

RECURSIVE MulAdd(_, _, _)
\* a * m + c on magnitudes, for a factor m <= 16 and a digit c
MulAdd(a, m, c) ==
    IF a = <<>>
    THEN IF c = 0 THEN <<>> ELSE <<c>>
    ELSE Append(MulAdd(Front(a), m, (Last(a) * m + c) \div 16), (Last(a) * m + c) % 16)

RECURSIVE DivTen(_, _, _, _)
\* quotient and remainder of a magnitude by ten, digit by digit from the left
DivTen(ds, i, rem, q) ==
    IF i > Len(ds) THEN [q |-> Strip(q), r |-> rem]
    ELSE DivTen(ds, i + 1, (rem * 16 + ds[i]) % 10, Append(q, (rem * 16 + ds[i]) \div 10))

----------------------------------------------------------------------------
(* Field descriptors: Formatter.__init__ *)

NoMissing  == [set |-> FALSE, text |-> <<>>]
Missing(s) == [set |-> TRUE, text |-> s]

\* variant: skip is accepted without a missing value
FormatterInitOK_noskipcheck(required, missing, skip, sequence) ==
    ~(required /\ missing.set /\ ~(skip \/ sequence))

\* the two TypeError checks of Formatter.__init__
FormatterInitOK(required, missing, skip, sequence) ==
    /\ ~(required /\ missing.set /\ ~(skip \/ sequence))
    /\ ~(skip /\ ~missing.set)

Formatter(kind, name, required, missing, skip, sequence) ==
    [kind |-> kind, name |-> name, required |-> required, missing |-> missing,
     skip |-> skip, sequence |-> sequence]

\* a natural number written as its base-16 digits
Natural(ds) == Num(FALSE, ds)

\* 0xffffffff and 0xffffffffffffffff
xFFFFFFFF == Natural(<<15, 15, 15, 15, 15, 15, 15, 15>>)
xFFFFFFFFFFFFFFFF == Natural(<<15, 15, 15, 15, 15, 15, 15, 15, 15, 15, 15, 15, 15, 15, 15, 15>>)

\* the descriptor with self.min, self.max = range
Ranged(f, min, max) ==
    [kind |-> f.kind, name |-> f.name, required |-> f.required, missing |-> f.missing,
     skip |-> f.skip, sequence |-> f.sequence, min |-> min, max |-> max]

String(name, required, missing, skip, sequence) ==
    Formatter("String", name, required, missing, skip, sequence)
\* range=(0, 0xffffffff) unless given
Integer(name, required, missing, skip, sequence) ==
    Ranged(Formatter("Integer", name, required, missing, skip, sequence),
           Natural(<<>>), xFFFFFFFF)
\* range=(0, 0xffffffffffffffff) unless given
Hex(name, required, missing, skip, sequence) ==
    Ranged(Formatter("Hex", name, required, missing, skip, sequence),
           Natural(<<>>), xFFFFFFFFFFFFFFFF)
\* range=(0, 0xffffffff)
Date(name, required, missing, skip, sequence) ==
    Ranged(Formatter("Date", name, required, missing, skip, sequence),
           Natural(<<>>), xFFFFFFFF)
\* range=(0, 0xffffffff)
Currency(name, required, missing, skip, sequence) ==
    Ranged(Formatter("Currency", name, required, missing, skip, sequence),
           Natural(<<>>), xFFFFFFFF)
Boolean(name, required, missing, skip, sequence) ==
    Formatter("Boolean", name, required, missing, skip, sequence)
Event(name, required, missing, skip, sequence) ==
    Formatter("Event", name, required, missing, skip, sequence)
Status(name, required, missing, skip, sequence) ==
    Formatter("Status", name, required, missing, skip, sequence)
MeterType(name, required, missing, skip, sequence) ==
    Formatter("MeterType", name, required, missing, skip, sequence)
Queue(name, required, missing, skip, sequence) ==
    Formatter("Queue", name, required, missing, skip, sequence)
IntervalPeriod(name, required, missing, skip, sequence) ==
    Formatter("IntervalPeriod", name, required, missing, skip, sequence)
IntervalChannel(name, required, missing, skip, sequence) ==
    Formatter("IntervalChannel", name, required, missing, skip, sequence)

----------------------------------------------------------------------------
(* Enumeration vocabularies: <<symbol, wire token>> in LEVELS order *)

Event_LEVELS == <<
    <<"time", <<"t", "i", "m", "e">>>>,
    <<"price", <<"p", "r", "i", "c", "e">>>>,
    <<"demand", <<"d", "e", "m", "a", "n", "d">>>>,
    <<"summation", <<"s", "u", "m", "m", "a", "t", "i", "o", "n">>>>,
    <<"message", <<"m", "e", "s", "s", "a", "g", "e">>>>,
    <<"scheduled_prices", <<"s", "c", "h", "e", "d", "u", "l", "e", "d", "_", "p", "r", "i", "c", "e", "s">>>>,
    <<"profile_data", <<"p", "r", "o", "f", "i", "l", "e", "_", "d", "a", "t", "a">>>> >>

Status_LEVELS == <<
    <<"initializing", <<"I", "n", "i", "t", "i", "a", "l", "i", "z", "i", "n", "g", ".", ".", ".">>>>,
    <<"network", <<"N", "e", "t", "w", "o", "r", "k">>>>,
    <<"joining", <<"J", "o", "i", "n", "i", "n", "g">>>>,
    <<"join_fail", <<"J", "o", "i", "n", ":", " ", "F", "a", "i", "l">>>>,
    <<"join_success", <<"J", "o", "i", "n", ":", " ", "S", "u", "c", "c", "e", "s", "s">>>>,
    <<"authenticating", <<"A", "u", "t", "h", "e", "n", "t", "i", "c", "a", "t", "i", "n", "g">>>>,
    <<"auth_success", <<"A", "u", "t", "h", "e", "n", "t", "i", "c", "a", "t", "i", "n", "g", ":", " ", "S", "u", "c", "c", "e", "s", "s">>>>,
    <<"auth_fail", <<"A", "u", "t", "h", "e", "n", "t", "i", "c", "a", "t", "i", "n", "g", ":", " ", "F", "a", "i", "l">>>>,
    <<"connected", <<"C", "o", "n", "n", "e", "c", "t", "e", "d">>>>,
    <<"disconnected", <<"D", "i", "s", "c", "o", "n", "n", "e", "c", "t", "e", "d">>>>,
    <<"rejoining", <<"R", "e", "j", "o", "i", "n", "i", "n", "g">>>> >>

MeterType_LEVELS == <<
    <<"electric", <<"0", "x", "0", "0", "0", "0">>>>,
    <<"gas", <<"0", "x", "0", "0", "0", "1">>>>,
    <<"water", <<"0", "x", "0", "0", "0", "2">>>>,
    <<"thermal", <<"0", "x", "0", "0", "0", "3">>>>,
    <<"pressure", <<"0", "x", "0", "0", "0", "4">>>>,
    <<"heat", <<"0", "x", "0", "0", "0", "5">>>>,
    <<"cooling", <<"0", "x", "0", "0", "0", "6">>>> >>

Queue_LEVELS == <<
    <<"active", <<"A", "c", "t", "i", "v", "e">>>>,
    <<"cancel_pending", <<"C", "a", "n", "c", "e", "l", " ", "P", "e", "n", "d", "i", "n", "g">>>> >>

IntervalChannel_LEVELS == <<
    <<"delivered", <<"D", "e", "l", "i", "v", "e", "r", "e", "d">>>>,
    <<"received", <<"R", "e", "c", "e", "i", "v", "e", "d">>>> >>

LEVELS(kind) ==
    CASE kind = "Event" -> Event_LEVELS
      [] kind = "Status" -> Status_LEVELS
      [] kind = "MeterType" -> MeterType_LEVELS
      [] kind = "Queue" -> Queue_LEVELS
      [] kind = "IntervalChannel" -> IntervalChannel_LEVELS

EnumerationKinds == {"Event", "Status", "MeterType", "Queue", "IntervalChannel"}

\* IntervalPeriod.INTERVALS.keys()
INTERVALS == <<86400, 3600, 1800, 900, 600, 450, 300, 150>>

\* Date.EPOCH: calendar.timegm of 2000-01-01T00:00:00
EPOCH == 946684800

\* currency_code, read from currency.xml (ISO 4217 number -> code)
currency_code == [n \in {36, 840, 978} |->
                    CASE n = 36 -> <<"A", "U", "D">>
                      [] n = 840 -> <<"U", "S", "D">>
                      [] n = 978 -> <<"E", "U", "R">>]

----------------------------------------------------------------------------
(* Field codecs: the _parse methods *)

DecDigits == <<"0", "1", "2", "3", "4", "5", "6", "7", "8", "9">>
HexLower  == <<"a", "b", "c", "d", "e", "f">>
HexUpper  == <<"A", "B", "C", "D", "E", "F">>

\* the value of character c as a digit in the given base, or -1
DigitVal(c, base) ==
    IF \E i \in 1..10 : DecDigits[i] = c
    THEN (CHOOSE i \in 1..10 : DecDigits[i] = c) - 1
    ELSE IF base = 16 /\ \E i \in 1..6 : HexLower[i] = c
    THEN 9 + (CHOOSE i \in 1..6 : HexLower[i] = c)
    ELSE IF base = 16 /\ \E i \in 1..6 : HexUpper[i] = c
    THEN 9 + (CHOOSE i \in 1..6 : HexUpper[i] = c)
    ELSE -1

RECURSIVE DigitsValue(_, _, _)
\* the magnitude the digit characters ds denote in the given base
DigitsValue(ds, base, acc) ==
    IF ds = <<>> THEN acc
    ELSE DigitsValue(Tail(ds), base, MulAdd(acc, base, DigitVal(Head(ds), base)))

\* int(value, base): an optional sign, for base 16 an optional 0x prefix, then one
\* or more digits; anything else raises ValueError
PyInt(value, base) ==
    LET neg    == value # <<>> /\ Head(value) = "-"
        signed == value # <<>> /\ Head(value) \in {"-", "+"}
        u      == IF signed THEN Tail(value) ELSE value
        pfx    == base = 16 /\ Len(u) >= 2 /\ u[1] = "0" /\ u[2] \in {"x", "X"}
        ds     == IF pfx THEN SubSeq(u, 3, Len(u)) ELSE u
    IN  IF ds = <<>> \/ \E i \in 1..Len(ds) : DigitVal(ds[i], base) < 0
        THEN Raise("ValueError", "MalformedValue", {}, "")
        ELSE Ok(Num(neg, DigitsValue(ds, base, <<>>)))

\* Formatter._parse: unescape(value); the alphabet holds no '&', so no entity
String_parse(value) == Ok(StrV(value))

\* variant: a number past 0xffffffff is refused
IntResult_capped(r) ==
    IF r.kind = "ok" /\ Leq(r.value, xFFFFFFFF) THEN Ok(IntV(r.value))
    ELSE IF r.kind = "ok" THEN Raise("LoonError", "OutOfRange", {}, "")
    ELSE r

\* the int() result as an integer value; an exception passes through
IntResult(r) == IF r.kind = "ok" THEN Ok(IntV(r.value)) ELSE r

\* Integer._parse
Integer_parse(value) == IntResult(PyInt(value, 10))

\* Hex._parse
Hex_parse(value) == IntResult(PyInt(value, 16))

\* datetime.utcfromtimestamp(int(value, 16) + self.EPOCH), kept as its timestamp
DateResult(r) == IF r.kind = "ok" THEN Ok(DateV(Add(r.value, FromInt(EPOCH)))) ELSE r

\* Date._parse
Date_parse(value) == DateResult(PyInt(value, 16))

\* currency_code(int(value, 16)); an unknown code is a LoonError
CurrencyResult(r) ==
    IF r.kind # "ok" THEN r
    ELSE IF Fits(r.value) /\ Small(r.value) \in DOMAIN currency_code
    THEN Ok(StrV(currency_code[Small(r.value)]))
    ELSE Raise("LoonError", "InvalidCurrency", {}, "")

\* Currency._parse
Currency_parse(value) == CurrencyResult(PyInt(value, 16))

\* Boolean._parse: Boolean._MAP[value]
Boolean_parse(value) ==
    IF value = <<"Y">> THEN Ok(BoolV(TRUE))
    ELSE IF value = <<"N">> THEN Ok(BoolV(FALSE))
    ELSE Raise("KeyError", "MalformedValue", {}, "")

\* L.index(value): the position of the first entry with that token
IndexOf(L, value) ==
    IF \E i \in 1..Len(L) : L[i][2] = value
    THEN Ok(IntV(FromInt((CHOOSE i \in 1..Len(L) : L[i][2] = value
                                    /\ \A j \in 1..(i - 1) : L[j][2] # value) - 1)))
    ELSE Raise("ValueError", "UnknownVariant", {}, "")

\* Enumeration._parse: self.LEVELS.values().index(value); list.index raises
\* ValueError, which the except IndexError clause does not catch
Enumeration_parse(kind, value) == IndexOf(LEVELS(kind), value)

\* keys[i] of a list of n keys, negative i counting from the end
KeyAt(keys, n, r) ==
    IF r.kind # "ok" THEN r
    ELSE IF Leq(FromInt(0), r.value) /\ Less(r.value, FromInt(n))
    THEN Ok(IntV(FromInt(keys[Small(r.value) + 1])))
    ELSE IF Less(r.value, FromInt(0)) /\ Leq(FromInt(0 - n), r.value)
    THEN Ok(IntV(FromInt(keys[n + Small(r.value) + 1])))
    ELSE Raise("LoonError", "UnknownVariant", {}, "")

\* IntervalPeriod._parse: INTERVALS.keys()[int(value)]
IntervalPeriod_parse(value) == KeyAt(INTERVALS, Len(INTERVALS), PyInt(value, 10))

\* the _parse method of the descriptor's class
FieldParse(kind, value) ==
    CASE kind = "String" -> String_parse(value)
      [] kind = "Integer" -> Integer_parse(value)
      [] kind = "Hex" -> Hex_parse(value)
      [] kind = "Date" -> Date_parse(value)
      [] kind = "Currency" -> Currency_parse(value)
      [] kind = "Boolean" -> Boolean_parse(value)
      [] kind = "IntervalPeriod" -> IntervalPeriod_parse(value)
      [] kind \in EnumerationKinds -> Enumeration_parse(kind, value)

----------------------------------------------------------------------------
(* Field codecs: the encode methods *)

\* sys.maxint of a build whose C long has the given width
MaxInt(bits) == Natural(<<7>> \o [i \in 1..((bits \div 4) - 1) |-> 15])

\* n fits a C long: -sys.maxint - 1 <= n <= sys.maxint
FitsWord(n, bits) ==
    Leq(Sub(Neg(MaxInt(bits)), FromInt(1)), n) /\ Leq(n, MaxInt(bits))

\* the Python object an integer computation yields: an int, or a long past the word
PyNumber(n, bits) == IF FitsWord(n, bits) THEN IntV(n) ELSE LongV(n)

\* a - b on int and long objects: a long operand makes the result a long
PySub(a, b, bits) ==
    IF a.t = "long" \/ b.t = "long" THEN LongV(Sub(a.v, b.v))
    ELSE PyNumber(Sub(a.v, b.v), bits)

HexDigit(d) == IF d < 10 THEN DecDigits[d + 1] ELSE HexLower[d - 9]

HexText(mag) == IF mag = <<>> THEN <<"0">> ELSE [i \in 1..Len(mag) |-> HexDigit(mag[i])]

RECURSIVE DecText(_)
\* the decimal digits of a magnitude, most significant first
DecText(mag) ==
    IF mag = <<>> THEN <<>>
    ELSE Append(DecText(DivTen(mag, 1, 0, <<>>).q), DecDigits[DivTen(mag, 1, 0, <<>>).r + 1])

SignText(n) == IF n.neg THEN <<"-">> ELSE <<>>

\* "{0:d}".format(obj)
PyFormatD(obj) ==
    SignText(obj.v) \o (IF obj.v.mag = <<>> THEN <<"0">> ELSE DecText(obj.v.mag))

\* hex(obj): Python 2 writes a long with a trailing L
PyHex(obj) ==
    SignText(obj.v) \o <<"0", "x">> \o HexText(obj.v.mag)
    \o (IF obj.t = "long" THEN <<"L">> ELSE <<>>)

\* variant: the upper bound is exclusive
InRange_open(f, obj) == Leq(f.min, obj.v) /\ Less(obj.v, f.max)

\* self.min <= obj <= self.max
InRange(f, obj) == Leq(f.min, obj.v) /\ Leq(obj.v, f.max)

\* Formatter.encode: escape(obj); the alphabet holds nothing to escape
String_encode(obj) == Ok(obj.v)

\* Integer.encode
Integer_encode(f, obj) ==
    IF InRange(f, obj) THEN Ok(PyFormatD(obj))
    ELSE Raise("LoonError", "OutOfRange", {}, "")

\* Hex.encode
Hex_encode(f, obj) ==
    IF InRange(f, obj) THEN Ok(PyHex(obj))
    ELSE Raise("LoonError", "OutOfRange", {}, "")

\* Date.encode: calendar.timegm(obj.utctimetuple()) - Date.EPOCH, then Hex.encode;
\* a datetime is kept as its timestamp
Date_encode(f, obj, bits) ==
    Hex_encode(f, PySub(PyNumber(obj.v, bits), IntV(FromInt(EPOCH)), bits))

\* Currency.encode: Hex.encode(currency_number[obj]); an unknown code is a LoonError
Currency_encode(f, obj) ==
    IF \E n \in DOMAIN currency_code : currency_code[n] = obj.v
    THEN Hex_encode(f, IntV(FromInt(CHOOSE n \in DOMAIN currency_code :
                                        currency_code[n] = obj.v)))
    ELSE Raise("LoonError", "InvalidCurrency", {}, "")

\* Boolean.encode: 'Y' if obj else 'N'
Boolean_encode(obj) == IF obj.v THEN Ok(<<"Y">>) ELSE Ok(<<"N">>)

\* L[i] for a Python index i: negative indices count from the end, an index
\* outside the list raises IndexError
ListItem(L, i) ==
    IF Leq(FromInt(0), i) /\ Less(i, FromInt(Len(L))) THEN Ok(L[Small(i) + 1][2])
    ELSE IF Less(i, FromInt(0)) /\ Leq(FromInt(0 - Len(L)), i)
    THEN Ok(L[Len(L) + Small(i) + 1][2])
    ELSE Raise("IndexError", "UnknownVariant", {}, "")

\* cls.LEVELS[obj]: the token of the symbol, or KeyError
LevelOf(L, symbol) ==
    IF \E i \in 1..Len(L) : L[i][1] = symbol
    THEN Ok(L[CHOOSE i \in 1..Len(L) : L[i][1] = symbol][2])
    ELSE Raise("KeyError", "UnknownVariant", {}, "")

\* the except (IndexError, KeyError) clause of Enumeration.encode
Known(r) ==
    IF r.kind = "raise" /\ r.exc \in {"IndexError", "KeyError"}
    THEN Raise("LoonError", "UnknownVariant", {}, "")
    ELSE r

\* Enumeration.encode
Enumeration_encode(kind, obj) ==
    IF obj.t \in {"int", "long"} THEN Known(ListItem(LEVELS(kind), obj.v))
    ELSE Known(LevelOf(LEVELS(kind), obj.v))

\* IntervalPeriod.encode: INTERVALS is an OrderedDict, which has no index method,
\* so the attribute lookup raises AttributeError whatever obj is
IntervalPeriod_encode(obj) == Raise("AttributeError", "NoIndexMethod", {}, "")

\* the encode method of the descriptor's class
FieldEncode(f, obj, bits) ==
    CASE f.kind = "String" -> String_encode(obj)
      [] f.kind = "Integer" -> Integer_encode(f, obj)
      [] f.kind = "Hex" -> Hex_encode(f, obj)
      [] f.kind = "Date" -> Date_encode(f, obj, bits)
      [] f.kind = "Currency" -> Currency_encode(f, obj)
      [] f.kind = "Boolean" -> Boolean_encode(obj)
      [] f.kind = "IntervalPeriod" -> IntervalPeriod_encode(obj)
      [] f.kind \in EnumerationKinds -> Enumeration_encode(f.kind, obj)

----------------------------------------------------------------------------
(* Formatter.parse *)

\* [x for x in value if x != self.missing]
StripMissing(f, value) ==
    SelectSeq(value, LAMBDA x : ~(f.missing.set /\ x = f.missing.text))

RECURSIVE ParseEach(_, _, _)
\* one element of the comprehension: r is what self._parse returned or raised
ParseNext(kind, xs, acc, r) ==
    IF r.kind = "ok" THEN ParseEach(kind, Tail(xs), Append(acc, r.value)) ELSE r

\* [self._parse(x) for x in result]: the first exception ends the comprehension
ParseEach(kind, xs, acc) ==
    IF xs = <<>> THEN Ok(acc) ELSE ParseNext(kind, xs, acc, FieldParse(kind, Head(xs)))

\* variant: a required sequence is not set apart
UnrequiredMissing_nocarve(f, result) ==
    result = <<>>

\* the empty-result test: not result and not (self.sequence and self.required)
UnrequiredMissing(f, result) ==
    result = <<>> /\ ~(f.sequence /\ f.required)

\* variant: the skip flag is ignored, the field is simply left out
Parsed_noskip(f, r) ==
    IF r.kind # "ok" THEN r
    ELSE IF UnrequiredMissing(f, r.value) THEN Ok(None)
    ELSE IF f.sequence THEN Ok(ListV(r.value)) ELSE Ok(r.value[1])

\* lines 115-122: what parse makes of the parsed values r
Parsed(f, r) ==
    IF r.kind # "ok" THEN r
    ELSE IF UnrequiredMissing(f, r.value)
    THEN IF f.skip THEN Raise("SkipSignal", "Skip", {f.name}, "") ELSE Ok(None)
    ELSE IF f.sequence THEN Ok(ListV(r.value)) ELSE Ok(r.value[1])

\* variant: a value list of any length is accepted
Formatter_parse_anylen(f, value) ==
    Parsed(f, ParseEach(f.kind, StripMissing(f, value), <<>>))

Formatter_parse(f, value) ==
    IF ~f.sequence /\ Len(value) > 1
    THEN Raise("LoonError", "UnexpectedSequence", {}, "")
    ELSE Parsed(f, ParseEach(f.kind, StripMissing(f, value), <<>>))

----------------------------------------------------------------------------
(* Parser._parsexml: ElementTree.fromstringlist on the joined lines *)

XmlError == [ok |-> FALSE, root |-> "", kids |-> <<>>]

\* character data at depth 2 before any sub-element is the child's text
AddText(kids, s) ==
    LET k == Len(kids)
    IN  IF k = 0 \/ kids[k].sub THEN kids
        ELSE [kids EXCEPT ![k] = [@ EXCEPT !.text = @ \o s]]

MarkSub(kids) ==
    LET k == Len(kids) IN [kids EXCEPT ![k] = [@ EXCEPT !.sub = TRUE]]

RECURSIVE XmlScan(_, _, _, _, _, _)
\* stack: the open elements; closed: the document element has ended
XmlScan(toks, i, stack, kids, root, closed) ==
    IF i > Len(toks)
    THEN IF closed THEN [ok |-> TRUE, root |-> root, kids |-> kids] ELSE XmlError
    ELSE LET tok == toks[i]
             d   == Len(stack)
         IN  CASE tok.t = "text" ->
                    IF d = 0 THEN XmlError
                    ELSE XmlScan(toks, i + 1, stack,
                                 IF d = 2 THEN AddText(kids, tok.s) ELSE kids, root, closed)
               [] tok.t = "open" ->
                    IF closed THEN XmlError
                    ELSE XmlScan(toks, i + 1, Append(stack, tok.n),
                                 CASE d = 1 -> Append(kids, [tag |-> tok.n, text |-> <<>>,
                                                             sub |-> FALSE])
                                   [] d = 2 -> MarkSub(kids)
                                   [] OTHER -> kids,
                                 IF d = 0 THEN tok.n ELSE root, closed)
               [] tok.t = "close" ->
                    IF d = 0 \/ stack[d] # tok.n THEN XmlError
                    ELSE XmlScan(toks, i + 1, SubSeq(stack, 1, d - 1), kids, root, d = 1)

Parser_parsexml(lines) == XmlScan(Flatten(lines), 1, <<>>, <<>>, "", FALSE)

----------------------------------------------------------------------------
(* Parser.__new__ *)

\* data[name]: the texts of the children called name, in document order
Group(kids, name) ==
    LET sel == SelectSeq(kids, LAMBDA e : e.tag = name)
    IN  [i \in 1..Len(sel) |-> sel[i].text]

ChildNames(kids) == {kids[i].tag : i \in 1..Len(kids)}

HasKey(d, k) == \E i \in 1..Len(d) : d[i].k = k
Get(d, k) == d[CHOOSE i \in 1..Len(d) : d[i].k = k].v
\* OrderedDict.__setitem__
DictSet(d, k, v) ==
    IF HasKey(d, k) THEN [i \in 1..Len(d) |-> IF d[i].k = k THEN [k |-> k, v |-> v] ELSE d[i]]
    ELSE Append(d, [k |-> k, v |-> v])
\* OrderedDict.pop
DictDel(d, k) == SelectSeq(d, LAMBDA e : e.k # k)

\* the lookup a descriptor makes: data.pop(formatter.name)
Lookup(left, name) == name \in left

\* variant: names left in data are ignored
Unparsed_nocheck(left, result) ==
    Ok(result)

\* lines 81-85: the check for unparsed data, then the result
Unparsed(left, result) ==
    IF left # {} THEN Raise("LoonError", "UnparsedFields", left, "") ELSE Ok(result)

RECURSIVE ProcessTags(_, _, _, _, _)
\* variant: a skip is held back until the later descriptors have been processed,
\* so that a failure of a later descriptor is reported instead
Store_skiplast(TAGS, i, kids, left, result, f, r) ==
    CASE r.kind = "ok" ->
           ProcessTags(TAGS, i + 1, kids, left,
                       IF r.value.t = "none" THEN result
                       ELSE DictSet(result, f.name, r.value))
      [] r.kind = "raise" /\ r.exc = "KeyError" ->
           IF f.required
           THEN Raise("LoonError", "MissingField", {f.name}, "")
           ELSE ProcessTags(TAGS, i + 1, kids, left, result)
      [] r.kind = "raise" /\ r.exc = "LoonError" ->
           Raise("LoonError", "FieldDecodeError", {f.name}, r.what)
      [] r.kind = "raise" /\ r.exc = "SkipSignal" ->
           IF ProcessTags(TAGS, i + 1, kids, left, result).kind = "ok" THEN r
           ELSE ProcessTags(TAGS, i + 1, kids, left, result)
      [] OTHER -> r

\* lines 65-79 for descriptor f = TAGS[i], whose name was found in data:
\* r is what formatter.parse returned or raised
Store(TAGS, i, kids, left, result, f, r) ==
    CASE r.kind = "ok" ->
           ProcessTags(TAGS, i + 1, kids, left,
                       IF r.value.t = "none" THEN result
                       ELSE DictSet(result, f.name, r.value))
      [] r.kind = "raise" /\ r.exc = "KeyError" ->
           IF f.required
           THEN Raise("LoonError", "MissingField", {f.name}, "")
           ELSE ProcessTags(TAGS, i + 1, kids, left, result)
      [] r.kind = "raise" /\ r.exc = "LoonError" ->
           Raise("LoonError", "FieldDecodeError", {f.name}, r.what)
      [] OTHER -> r

\* the loop over cls.TAGS, then the check for unparsed data;
\* left: the keys still in data
ProcessTags(TAGS, i, kids, left, result) ==
    IF i > Len(TAGS)
    THEN Unparsed(left, result)
    ELSE IF ~Lookup(left, TAGS[i].name)
    THEN IF TAGS[i].required
         THEN Raise("LoonError", "MissingField", {TAGS[i].name}, "")
         ELSE ProcessTags(TAGS, i + 1, kids, left, result)
    ELSE Store(TAGS, i, kids, left \ {TAGS[i].name}, result, TAGS[i],
               Formatter_parse(TAGS[i], Group(kids, TAGS[i].name)))

\* lines 52-85 on the parsed document x
FromTree(cls, x) ==
    IF ~x.ok THEN Raise("LoonError", "MalformedRecord", {}, "")
    ELSE ProcessTags(cls.TAGS, 1, x.kids, ChildNames(x.kids),
                     <<[k |-> "response_type", v |-> TagV(x.root)]>>)

Parser_new(cls, lines) == FromTree(cls, Parser_parsexml(lines))

----------------------------------------------------------------------------
(* ScaleParser.__new__ *)

(* Python floats are IEEE 754 doubles: a sign, a mantissa of 53 bits (a         *)
(* magnitude m with 2^52 <= m < 2^53) and an exponent e, for the value         *)
(* m * 2^e; zero has the empty mantissa.  The result of / and * is the double  *)
(* nearest to the exact result, ties going to the even mantissa.               *)

Double(neg, m, e) == [neg |-> neg /\ m # <<>>, m |-> m, e |-> IF m = <<>> THEN 0 ELSE e]

BitsOf(d) == CASE d = 0 -> 0 [] d = 1 -> 1 [] d < 4 -> 2 [] d < 8 -> 3 [] OTHER -> 4
\* the number of bits of a magnitude
BitLen(a) == IF a = <<>> THEN 0 ELSE 4 * (Len(a) - 1) + BitsOf(a[1])

Zeros(k) == [i \in 1..k |-> 0]
\* a * 2^k
ShiftLeft(a, k) == IF a = <<>> THEN <<>> ELSE Strip(MulAdd(a, 2^(k % 4), 0)) \o Zeros(k \div 4)

RECURSIVE MulSmall(_, _, _)
\* a * m + c on a magnitude, for numbers m and c below 2^27
MulSmall(a, m, c) ==
    IF a = <<>> THEN MagOf(c)
    ELSE Append(MulSmall(Front(a), m, (Last(a) * m + c) \div 16), (Last(a) * m + c) % 16)

RECURSIVE DivSmall(_, _, _, _, _)
\* quotient and remainder of a magnitude by a number d <= 2^27, digit by digit
DivSmall(ds, d, i, rem, q) ==
    IF i > Len(ds) THEN [q |-> Strip(q), r |-> rem]
    ELSE DivSmall(ds, d, i + 1, (rem * 16 + ds[i]) % d, Append(q, (rem * 16 + ds[i]) \div d))

\* the mantissa after a round up: 2^53 becomes 2^52 with the next exponent
Carried(neg, m, e) ==
    IF BitLen(m) = 54 THEN Double(neg, <<1>> \o Zeros(13), e + 1) ELSE Double(neg, m, e)

\* variant: the bits beyond the 53rd are cut off
Rounded_down(neg, qr, s, e, sticky) == Double(neg, qr.q, e + s)

\* qr is the quotient and remainder of a magnitude by 2^s, sticky tells that the
\* exact value lies above the magnitude: round to nearest, ties to even
Rounded(neg, qr, s, e, sticky) ==
    IF qr.r > 2^(s - 1) \/ (qr.r = 2^(s - 1) /\ (sticky \/ Last(qr.q) % 2 = 1))
    THEN Carried(neg, AddDigits(qr.q, <<1>>, 0), e + s)
    ELSE Double(neg, qr.q, e + s)

\* the double nearest to n * 2^e (or to a value between n * 2^e and (n + 1) * 2^e
\* when sticky), for a magnitude n of at most 80 bits
Nearest(neg, n, e, sticky) ==
    IF n = <<>> THEN Double(FALSE, <<>>, 0)
    ELSE IF BitLen(n) <= 53 THEN Double(neg, ShiftLeft(n, 53 - BitLen(n)), e - (53 - BitLen(n)))
    ELSE Rounded(neg, DivSmall(n, 2^(BitLen(n) - 53), 1, 0, <<>>), BitLen(n) - 53, e, sticky)

\* the double nearest to n / b from the quotient and remainder of n * 2^k by b
NearestQuotient(neg, qr, k) == Nearest(neg, qr.q, 0 - k, qr.r # 0)

Abs(i) == IF i < 0 THEN 0 - i ELSE i

\* the shift that gives the quotient of n * 2^k by b 56 or 57 bits
QuotientShift(n, b) == 56 + BitLen(MagOf(b)) - BitLen(n)

\* n / b for a magnitude n below 2^53 and a number b, 0 < |b| < 2^27
QuotientMag(neg, n, b) ==
    NearestQuotient(neg # (b < 0),
                    DivSmall(ShiftLeft(n, QuotientShift(n, Abs(b))), Abs(b), 1, 0, <<>>),
                    QuotientShift(n, Abs(b)))

\* float(a) / float(b) for numbers a and b of the model, b not zero
Quotient(a, b) == QuotientMag(a < 0, MagOf(Abs(a)), b)

\* x * d for a number x of the model and a double d
Times(x, d) ==
    IF x = 0 \/ d.m = <<>> THEN Double(FALSE, <<>>, 0)
    ELSE Nearest(d.neg # (x < 0), MulSmall(d.m, Abs(x), 0), d.e, FALSE)

FloatV(d) == [t |-> "float", v |-> d]
\* '{0:{zero}{left}.{right}f}'.format(x).lstrip(), kept as its arguments
FormattedV(d, zero, left, right) ==
    [t |-> "formatted", v |-> <<d, zero, left, right>>]

\* variant: a zero factor is kept
Scalar_keepzero(x) == x

\* ScaleParser._scalar: float(x) if x else 1.0; the float of a number of the model
\* is that number
Scalar(x) == IF x # 0 THEN x ELSE 1

RECURSIVE ScaleNumbers(_, _, _, _, _, _, _)
\* lines 300-305: result[number] *= factor for the named fields, and their format
ScaleNumbers(result, NUMBERS, i, factor, fmt, left, right) ==
    IF i > Len(NUMBERS) THEN result
    ELSE ScaleNumbers(DictSet(result, NUMBERS[i],
                              IF fmt.on
                              THEN FormattedV(Times(Small(Get(result, NUMBERS[i]).v), factor),
                                              fmt.zero, left, right)
                              ELSE FloatV(Times(Small(Get(result, NUMBERS[i]).v), factor))),
                      NUMBERS, i + 1, factor, fmt, left, right)

\* multiplier / divisor, line 301: float division raises ZeroDivisionError for a
\* zero divisor
Factor(multiplier, divisor) ==
    IF divisor = 0 THEN Raise("ZeroDivisionError", "FloatDivision", {}, "")
    ELSE Ok(Quotient(multiplier, divisor))

\* lines 296-307 on res, the fields Parser.__new__ returned, with the factor f
ScaledBy(cls, options, res, f) ==
    IF f.kind = "raise" THEN f
    ELSE LET right == Small(Get(res, "DigitsRight").v)
             left  == Small(Get(res, "DigitsLeft").v) + right + 1
             zero  == IF Get(res, "SuppressLeadingZero").v THEN "" ELSE "0"
             rest  == DictDel(DictDel(DictDel(DictDel(DictDel(res,
                         "Divisor"), "Multiplier"), "DigitsRight"),
                         "DigitsLeft"), "SuppressLeadingZero")
         IN  Ok(ScaleNumbers(rest, cls.NUMBERS, 1, f.value,
                             [on |-> options.use_formatting, zero |-> zero],
                             left, right))

\* lines 290-307 on r, what Parser.__new__ returned or raised; the scale factors
\* and readings of the records under test are small numbers
Scaled(cls, options, r) ==
    IF r.kind # "ok" THEN r
    ELSE ScaledBy(cls, options, r.value,
                  Factor(Scalar(Small(Get(r.value, "Multiplier").v)),
                         Scalar(Small(Get(r.value, "Divisor").v))))

ScaleParser_new(cls, lines, options) == Scaled(cls, options, Parser_new(cls, lines))

\* parser(response, self.options): the class's __new__
Decode(cls, lines, options) ==
    IF cls.scale THEN ScaleParser_new(cls, lines, options) ELSE Parser_new(cls, lines)

----------------------------------------------------------------------------
(* The response catalog: the Parser subclasses of parser.py *)

Warning ==
  [name |-> "Warning", scale |-> FALSE, NUMBERS |-> <<>>, TAGS |-> <<
    String("Text", TRUE, NoMissing, FALSE, FALSE) >>]

Error ==
  [name |-> "Error", scale |-> FALSE, NUMBERS |-> <<>>, TAGS |-> <<
    String("Text", TRUE, NoMissing, FALSE, FALSE) >>]

ConnectionStatus ==
  [name |-> "ConnectionStatus", scale |-> FALSE, NUMBERS |-> <<>>, TAGS |-> <<
    Hex("DeviceMacId", TRUE, NoMissing, FALSE, FALSE),
    Hex("MeterMacId", TRUE, NoMissing, FALSE, FALSE),
    Status("Status", TRUE, NoMissing, FALSE, FALSE),
    String("Description", FALSE, NoMissing, FALSE, FALSE),
    Ranged(Hex("StatusCode", FALSE, NoMissing, FALSE, FALSE),
           Natural(<<>>), Natural(<<15, 15>>)),
    Ranged(Hex("ExtPanId", FALSE, NoMissing, FALSE, FALSE),
           Natural(<<>>), Natural(<<15, 15, 15, 15, 15, 15, 15, 15, 15, 15, 15, 15, 15, 15, 15, 15>>)),
    Ranged(Integer("Channel", FALSE, NoMissing, FALSE, FALSE),
           Natural(<<11>>), Natural(<<1, 10>>)),
    Ranged(Hex("ShortAddr", FALSE, NoMissing, FALSE, FALSE),
           Natural(<<>>), Natural(<<15, 15, 15, 15>>)),
    Ranged(Hex("LinkStrength", TRUE, NoMissing, FALSE, FALSE),
           Natural(<<>>), Natural(<<6, 4>>)) >>]

DeviceInfo ==
  [name |-> "DeviceInfo", scale |-> FALSE, NUMBERS |-> <<>>, TAGS |-> <<
    Hex("DeviceMacId", TRUE, NoMissing, FALSE, FALSE),
    Hex("InstallCode", TRUE, NoMissing, FALSE, FALSE),
    Hex("LinkKey", TRUE, NoMissing, FALSE, FALSE),
    String("FWVersion", TRUE, NoMissing, FALSE, FALSE),
    String("HWVersion", TRUE, NoMissing, FALSE, FALSE),
    String("ImageType", TRUE, NoMissing, FALSE, FALSE),
    String("Manufacturer", TRUE, NoMissing, FALSE, FALSE),
    String("ModelId", TRUE, NoMissing, FALSE, FALSE),
    String("DateCode", TRUE, NoMissing, FALSE, FALSE) >>]

ScheduleInfo ==
  [name |-> "ScheduleInfo", scale |-> FALSE, NUMBERS |-> <<>>, TAGS |-> <<
    Hex("DeviceMacId", TRUE, NoMissing, FALSE, FALSE),
    Hex("MeterMacId", TRUE, Missing(<<"0", "x", "f", "f", "f", "f", "f", "f", "f", "f", "f", "f", "f", "f", "f", "f", "f", "f">>), TRUE, FALSE),
    String("Mode", TRUE, NoMissing, FALSE, FALSE),
    Event("Event", FALSE, NoMissing, FALSE, FALSE),
    Ranged(Hex("Frequency", TRUE, NoMissing, FALSE, FALSE),
           Natural(<<>>), Natural(<<15, 15, 15, 15, 15, 15, 15, 14>>)),
    Boolean("Enabled", TRUE, NoMissing, FALSE, FALSE) >>]

MeterList ==
  [name |-> "MeterList", scale |-> FALSE, NUMBERS |-> <<>>, TAGS |-> <<
    Hex("DeviceMacId", TRUE, NoMissing, FALSE, FALSE),
    Hex("MeterMacId", TRUE, Missing(<<"0", "x", "f", "f", "f", "f", "f", "f", "f", "f", "f", "f", "f", "f", "f", "f", "f", "f">>), FALSE, TRUE) >>]

MeterInfo ==
  [name |-> "MeterInfo", scale |-> FALSE, NUMBERS |-> <<>>, TAGS |-> <<
    Hex("DeviceMacId", TRUE, NoMissing, FALSE, FALSE),
    Hex("MeterMacId", TRUE, Missing(<<"0", "x", "f", "f", "f", "f", "f", "f", "f", "f", "f", "f", "f", "f", "f", "f", "f", "f">>), TRUE, FALSE),
    MeterType("Type", TRUE, NoMissing, FALSE, FALSE),
    String("Nickname", TRUE, NoMissing, FALSE, FALSE),
    String("Account", FALSE, NoMissing, FALSE, FALSE),
    String("Auth", FALSE, NoMissing, FALSE, FALSE),
    String("Host", FALSE, NoMissing, FALSE, FALSE),
    Boolean("Enabled", FALSE, NoMissing, FALSE, FALSE) >>]

NetworkInfo ==
  [name |-> "NetworkInfo", scale |-> FALSE, NUMBERS |-> <<>>, TAGS |-> <<
    Hex("DeviceMacId", TRUE, NoMissing, FALSE, FALSE),
    Hex("CoordMacId", TRUE, NoMissing, FALSE, FALSE),
    Status("Status", TRUE, NoMissing, FALSE, FALSE),
    String("Description", FALSE, NoMissing, FALSE, FALSE),
    Ranged(Hex("StatusCode", TRUE, NoMissing, FALSE, FALSE),
           Natural(<<>>), Natural(<<15, 15>>)),
    Ranged(Hex("ExtPanId", TRUE, NoMissing, FALSE, FALSE),
           Natural(<<>>), Natural(<<15, 15, 15, 15, 15, 15, 15, 15, 15, 15, 15, 15, 15, 15, 15, 15>>)),
    Ranged(Integer("Channel", TRUE, NoMissing, FALSE, FALSE),
           Natural(<<11>>), Natural(<<1, 10>>)),
    Ranged(Hex("ShortAddr", TRUE, NoMissing, FALSE, FALSE),
           Natural(<<>>), Natural(<<15, 15, 15, 15>>)),
    Ranged(Hex("LinkStrength", TRUE, NoMissing, FALSE, FALSE),
           Natural(<<>>), Natural(<<6, 4>>)) >>]

TimeCluster ==
  [name |-> "TimeCluster", scale |-> FALSE, NUMBERS |-> <<>>, TAGS |-> <<
    Hex("DeviceMacId", TRUE, NoMissing, FALSE, FALSE),
    Hex("MeterMacId", TRUE, NoMissing, FALSE, FALSE),
    Date("UTCTime", TRUE, NoMissing, FALSE, FALSE),
    Date("LocalTime", TRUE, NoMissing, FALSE, FALSE) >>]

MessageCluster ==
  [name |-> "MessageCluster", scale |-> FALSE, NUMBERS |-> <<>>, TAGS |-> <<
    Hex("DeviceMacId", TRUE, NoMissing, FALSE, FALSE),
    Hex("MeterMacId", TRUE, NoMissing, FALSE, FALSE),
    Date("TimeStamp", TRUE, Missing(<<>>), TRUE, FALSE),
    String("TimeStamp", TRUE, NoMissing, FALSE, FALSE),
    Ranged(Hex("Id", TRUE, NoMissing, FALSE, FALSE),
           Natural(<<>>), Natural(<<15, 15, 15, 15, 15, 15, 15, 15>>)),
    String("Id", TRUE, NoMissing, FALSE, FALSE),
    String("Text", TRUE, NoMissing, FALSE, FALSE),
    Boolean("ConfirmationRequired", TRUE, NoMissing, FALSE, FALSE),
    Boolean("Confirmed", TRUE, NoMissing, FALSE, FALSE),
    Queue("Queue", TRUE, NoMissing, FALSE, FALSE) >>]

PriceCluster ==
  [name |-> "PriceCluster", scale |-> FALSE, NUMBERS |-> <<>>, TAGS |-> <<
    Hex("DeviceMacId", TRUE, NoMissing, FALSE, FALSE),
    Hex("MeterMacId", TRUE, NoMissing, FALSE, FALSE),
    Date("TimeStamp", TRUE, NoMissing, FALSE, FALSE),
    Ranged(Hex("Price", TRUE, NoMissing, FALSE, FALSE),
           Natural(<<>>), Natural(<<15, 15, 15, 15, 15, 15, 15, 15>>)),
    Currency("Currency", TRUE, NoMissing, FALSE, FALSE),
    Hex("TrailingDigits", TRUE, NoMissing, FALSE, FALSE),
    Ranged(Hex("Tier", TRUE, NoMissing, FALSE, FALSE),
           Natural(<<>>), Natural(<<15, 15>>)),
    String("TierLabel", FALSE, Missing(<<>>), FALSE, FALSE),
    String("RateLabel", FALSE, Missing(<<>>), FALSE, FALSE) >>]

InstantaneousDemand ==
  [name |-> "InstantaneousDemand", scale |-> TRUE, NUMBERS |-> <<"Demand">>, TAGS |-> <<
    Hex("DeviceMacId", TRUE, NoMissing, FALSE, FALSE),
    Hex("MeterMacId", TRUE, NoMissing, FALSE, FALSE),
    Date("TimeStamp", TRUE, NoMissing, FALSE, FALSE),
    Ranged(Hex("Demand", TRUE, NoMissing, FALSE, FALSE),
           Natural(<<>>), Natural(<<15, 15, 15, 15, 15, 15>>)),
    Ranged(Hex("Multiplier", TRUE, NoMissing, FALSE, FALSE),
           Natural(<<>>), Natural(<<15, 15, 15, 15, 15, 15, 15, 15>>)),
    Ranged(Hex("Divisor", TRUE, NoMissing, FALSE, FALSE),
           Natural(<<>>), Natural(<<15, 15, 15, 15, 15, 15, 15, 15>>)),
    Ranged(Hex("DigitsRight", TRUE, NoMissing, FALSE, FALSE),
           Natural(<<>>), Natural(<<15, 15>>)),
    Ranged(Hex("DigitsLeft", TRUE, NoMissing, FALSE, FALSE),
           Natural(<<>>), Natural(<<15, 15>>)),
    Boolean("SuppressLeadingZero", TRUE, NoMissing, FALSE, FALSE) >>]

CurrentSummationDelivered ==
  [name |-> "CurrentSummationDelivered", scale |-> TRUE, NUMBERS |-> <<"SummationDelivered", "SummationReceived">>, TAGS |-> <<
    Hex("DeviceMacId", TRUE, NoMissing, FALSE, FALSE),
    Hex("MeterMacId", TRUE, NoMissing, FALSE, FALSE),
    Date("TimeStamp", TRUE, NoMissing, FALSE, FALSE),
    Ranged(Hex("SummationDelivered", TRUE, NoMissing, FALSE, FALSE),
           Natural(<<>>), Natural(<<15, 15, 15, 15, 15, 15, 15, 15>>)),
    Ranged(Hex("SummationReceived", TRUE, NoMissing, FALSE, FALSE),
           Natural(<<>>), Natural(<<15, 15, 15, 15, 15, 15, 15, 15>>)),
    Ranged(Hex("Multiplier", TRUE, NoMissing, FALSE, FALSE),
           Natural(<<>>), Natural(<<15, 15, 15, 15, 15, 15, 15, 15>>)),
    Ranged(Hex("Divisor", TRUE, NoMissing, FALSE, FALSE),
           Natural(<<>>), Natural(<<15, 15, 15, 15, 15, 15, 15, 15>>)),
    Ranged(Hex("DigitsRight", TRUE, NoMissing, FALSE, FALSE),
           Natural(<<>>), Natural(<<15, 15>>)),
    Ranged(Hex("DigitsLeft", TRUE, NoMissing, FALSE, FALSE),
           Natural(<<>>), Natural(<<15, 15>>)),
    Boolean("SuppressLeadingZero", TRUE, NoMissing, FALSE, FALSE) >>]

CurrentPeriodUsage ==
  [name |-> "CurrentPeriodUsage", scale |-> TRUE, NUMBERS |-> <<"CurrentUsage">>, TAGS |-> <<
    Hex("DeviceMacId", TRUE, NoMissing, FALSE, FALSE),
    Hex("MeterMacId", TRUE, NoMissing, FALSE, FALSE),
    Date("TimeStamp", TRUE, NoMissing, FALSE, FALSE),
    Ranged(Hex("CurrentUsage", TRUE, NoMissing, FALSE, FALSE),
           Natural(<<>>), Natural(<<15, 15, 15, 15, 15, 15, 15, 15>>)),
    Ranged(Hex("Multiplier", TRUE, NoMissing, FALSE, FALSE),
           Natural(<<>>), Natural(<<15, 15, 15, 15, 15, 15, 15, 15>>)),
    Ranged(Hex("Divisor", TRUE, NoMissing, FALSE, FALSE),
           Natural(<<>>), Natural(<<15, 15, 15, 15, 15, 15, 15, 15>>)),
    Ranged(Hex("DigitsRight", TRUE, NoMissing, FALSE, FALSE),
           Natural(<<>>), Natural(<<15, 15>>)),
    Ranged(Hex("DigitsLeft", TRUE, NoMissing, FALSE, FALSE),
           Natural(<<>>), Natural(<<15, 15>>)),
    Boolean("SuppressLeadingZero", TRUE, NoMissing, FALSE, FALSE),
    Date("StartDate", TRUE, NoMissing, FALSE, FALSE) >>]

LastPeriodUsage ==
  [name |-> "LastPeriodUsage", scale |-> TRUE, NUMBERS |-> <<"LastUsage">>, TAGS |-> <<
    Hex("DeviceMacId", TRUE, NoMissing, FALSE, FALSE),
    Hex("MeterMacId", TRUE, NoMissing, FALSE, FALSE),
    Ranged(Hex("LastUsage", TRUE, NoMissing, FALSE, FALSE),
           Natural(<<>>), Natural(<<15, 15, 15, 15, 15, 15, 15, 15>>)),
    Ranged(Hex("Multiplier", TRUE, NoMissing, FALSE, FALSE),
           Natural(<<>>), Natural(<<15, 15, 15, 15, 15, 15, 15, 15>>)),
    Ranged(Hex("Divisor", TRUE, NoMissing, FALSE, FALSE),
           Natural(<<>>), Natural(<<15, 15, 15, 15, 15, 15, 15, 15>>)),
    Ranged(Hex("DigitsRight", TRUE, NoMissing, FALSE, FALSE),
           Natural(<<>>), Natural(<<15, 15>>)),
    Ranged(Hex("DigitsLeft", TRUE, NoMissing, FALSE, FALSE),
           Natural(<<>>), Natural(<<15, 15>>)),
    Boolean("SuppressLeadingZero", TRUE, NoMissing, FALSE, FALSE),
    Date("StartDate", TRUE, NoMissing, FALSE, FALSE),
    Date("EndDate", TRUE, NoMissing, FALSE, FALSE) >>]

ProfileData ==
  [name |-> "ProfileData", scale |-> FALSE, NUMBERS |-> <<>>, TAGS |-> <<
    Hex("DeviceMacId", TRUE, NoMissing, FALSE, FALSE),
    Hex("MeterMacId", TRUE, NoMissing, FALSE, FALSE),
    Date("EndTime", TRUE, NoMissing, FALSE, FALSE),
    Ranged(Hex("Status", TRUE, NoMissing, FALSE, FALSE),
           Natural(<<>>), Natural(<<5>>)),
    IntervalPeriod("ProfileIntervalPeriod", TRUE, NoMissing, FALSE, FALSE),
    Ranged(Hex("NumberOfPeriodsDelivered", TRUE, NoMissing, FALSE, FALSE),
           Natural(<<>>), Natural(<<15, 15>>)),
    Ranged(Hex("IntervalData", TRUE, Missing(<<"0", "x", "f", "f", "f", "f", "f", "f">>), FALSE, TRUE),
           Natural(<<>>), Natural(<<15, 15, 15, 15, 15, 15>>)) >>]

\* Loon.PARSERS, by class name (Firmware, which parser.py does not define, left out)
PARSERS == <<
    ConnectionStatus, DeviceInfo, ScheduleInfo,
    MeterList, MeterInfo, NetworkInfo,
    TimeCluster, MessageCluster, PriceCluster,
    InstantaneousDemand, CurrentSummationDelivered,
    CurrentPeriodUsage, LastPeriodUsage,
    ProfileData, Warning, Error >>

ParserNames == {PARSERS[i].name : i \in 1..Len(PARSERS)}

\* self.PARSERS[tag]
ParserFor(tag) == PARSERS[CHOOSE i \in 1..Len(PARSERS) : PARSERS[i].name = tag]

----------------------------------------------------------------------------
(* The commands: the Command subclasses of command.py *)

initialize == [name |-> "initialize", text |-> <<"i", "n", "i", "t", "i", "a", "l", "i", "z", "e">>, ARGS |-> <<>>]

restart == [name |-> "restart", text |-> <<"r", "e", "s", "t", "a", "r", "t">>, ARGS |-> <<>>]

factory_reset == [name |-> "factory_reset", text |-> <<"f", "a", "c", "t", "o", "r", "y", "_", "r", "e", "s", "e", "t">>, ARGS |-> <<>>]

get_connection_status == [name |-> "get_connection_status", text |-> <<"g", "e", "t", "_", "c", "o", "n", "n", "e", "c", "t", "i", "o", "n", "_", "s", "t", "a", "t", "u", "s">>, ARGS |-> <<>>]

get_device_info == [name |-> "get_device_info", text |-> <<"g", "e", "t", "_", "d", "e", "v", "i", "c", "e", "_", "i", "n", "f", "o">>, ARGS |-> <<>>]

get_schedule ==
  [name |-> "get_schedule", text |-> <<"g", "e", "t", "_", "s", "c", "h", "e", "d", "u", "l", "e">>, ARGS |-> <<
    Hex("MeterMacId", FALSE, NoMissing, FALSE, FALSE),
    Event("Event", FALSE, NoMissing, FALSE, FALSE) >>]

set_schedule ==
  [name |-> "set_schedule", text |-> <<"s", "e", "t", "_", "s", "c", "h", "e", "d", "u", "l", "e">>, ARGS |-> <<
    Hex("MeterMacId", FALSE, NoMissing, FALSE, FALSE),
    Event("Event", TRUE, NoMissing, FALSE, FALSE),
    Ranged(Hex("Frequency", TRUE, NoMissing, FALSE, FALSE),
           Natural(<<>>), Natural(<<15, 15, 15, 15, 15, 15, 15, 14>>)),
    Boolean("Enabled", TRUE, NoMissing, FALSE, FALSE) >>]

set_schedule_default ==
  [name |-> "set_schedule_default", text |-> <<"s", "e", "t", "_", "s", "c", "h", "e", "d", "u", "l", "e", "_", "d", "e", "f", "a", "u", "l", "t">>, ARGS |-> <<
    Hex("MeterMacId", FALSE, NoMissing, FALSE, FALSE),
    Event("Event", FALSE, NoMissing, FALSE, FALSE) >>]

get_meter_list == [name |-> "get_meter_list", text |-> <<"g", "e", "t", "_", "m", "e", "t", "e", "r", "_", "l", "i", "s", "t">>, ARGS |-> <<>>]

get_meter_info ==
  [name |-> "get_meter_info", text |-> <<"g", "e", "t", "_", "m", "e", "t", "e", "r", "_", "i", "n", "f", "o">>, ARGS |-> <<
    Hex("MeterMacId", FALSE, NoMissing, FALSE, FALSE) >>]

get_network_info == [name |-> "get_network_info", text |-> <<"g", "e", "t", "_", "n", "e", "t", "w", "o", "r", "k", "_", "i", "n", "f", "o">>, ARGS |-> <<>>]

set_meter_info ==
  [name |-> "set_meter_info", text |-> <<"s", "e", "t", "_", "m", "e", "t", "e", "r", "_", "i", "n", "f", "o">>, ARGS |-> <<
    Hex("MeterMacId", FALSE, NoMissing, FALSE, FALSE),
    String("NickName", FALSE, NoMissing, FALSE, FALSE),
    String("Account", FALSE, NoMissing, FALSE, FALSE),
    String("Auth", FALSE, NoMissing, FALSE, FALSE),
    String("Host", FALSE, NoMissing, FALSE, FALSE),
    Boolean("Enabled", FALSE, NoMissing, FALSE, FALSE) >>]

get_time ==
  [name |-> "get_time", text |-> <<"g", "e", "t", "_", "t", "i", "m", "e">>, ARGS |-> <<
    Hex("MeterMacId", FALSE, NoMissing, FALSE, FALSE),
    Boolean("Refresh", FALSE, NoMissing, FALSE, FALSE) >>]

get_message ==
  [name |-> "get_message", text |-> <<"g", "e", "t", "_", "m", "e", "s", "s", "a", "g", "e">>, ARGS |-> <<
    Hex("MeterMacId", FALSE, NoMissing, FALSE, FALSE),
    Boolean("Refresh", FALSE, NoMissing, FALSE, FALSE) >>]

confirm_message ==
  [name |-> "confirm_message", text |-> <<"c", "o", "n", "f", "i", "r", "m", "_", "m", "e", "s", "s", "a", "g", "e">>, ARGS |-> <<
    Hex("MeterMacId", FALSE, NoMissing, FALSE, FALSE),
    Ranged(Hex("Id", TRUE, NoMissing, FALSE, FALSE),
           Natural(<<>>), Natural(<<15, 15, 15, 15, 15, 15, 15, 15>>)) >>]

get_current_price ==
  [name |-> "get_current_price", text |-> <<"g", "e", "t", "_", "c", "u", "r", "r", "e", "n", "t", "_", "p", "r", "i", "c", "e">>, ARGS |-> <<
    Hex("MeterMacId", FALSE, NoMissing, FALSE, FALSE),
    Boolean("Refresh", FALSE, NoMissing, FALSE, FALSE) >>]

set_current_price ==
  [name |-> "set_current_price", text |-> <<"s", "e", "t", "_", "c", "u", "r", "r", "e", "n", "t", "_", "p", "r", "i", "c", "e">>, ARGS |-> <<
    Hex("MeterMacId", FALSE, NoMissing, FALSE, FALSE),
    Ranged(Hex("Price", TRUE, NoMissing, FALSE, FALSE),
           Natural(<<>>), Natural(<<15, 15, 15, 15, 15, 15, 15, 15>>)),
    Ranged(Hex("TrailingDigits", TRUE, NoMissing, FALSE, FALSE),
           Natural(<<>>), Natural(<<15, 15>>)) >>]

get_instantaneous_demand ==
  [name |-> "get_instantaneous_demand", text |-> <<"g", "e", "t", "_", "i", "n", "s", "t", "a", "n", "t", "a", "n", "e", "o", "u", "s", "_", "d", "e", "m", "a", "n", "d">>, ARGS |-> <<
    Hex("MeterMacId", FALSE, NoMissing, FALSE, FALSE),
    Boolean("Refresh", FALSE, NoMissing, FALSE, FALSE) >>]

get_current_summation_delivered ==
  [name |-> "get_current_summation_delivered", text |-> <<"g", "e", "t", "_", "c", "u", "r", "r", "e", "n", "t", "_", "s", "u", "m", "m", "a", "t", "i", "o", "n", "_", "d", "e", "l", "i", "v", "e", "r", "e", "d">>, ARGS |-> <<
    Hex("MeterMacId", FALSE, NoMissing, FALSE, FALSE),
    Boolean("Refresh", FALSE, NoMissing, FALSE, FALSE) >>]

get_current_period_usage ==
  [name |-> "get_current_period_usage", text |-> <<"g", "e", "t", "_", "c", "u", "r", "r", "e", "n", "t", "_", "p", "e", "r", "i", "o", "d", "_", "u", "s", "a", "g", "e">>, ARGS |-> <<
    Hex("MeterMacId", FALSE, NoMissing, FALSE, FALSE) >>]

get_last_period_usage ==
  [name |-> "get_last_period_usage", text |-> <<"g", "e", "t", "_", "l", "a", "s", "t", "_", "p", "e", "r", "i", "o", "d", "_", "u", "s", "a", "g", "e">>, ARGS |-> <<
    Hex("MeterMacId", FALSE, NoMissing, FALSE, FALSE) >>]

close_current_period ==
  [name |-> "close_current_period", text |-> <<"c", "l", "o", "s", "e", "_", "c", "u", "r", "r", "e", "n", "t", "_", "p", "e", "r", "i", "o", "d">>, ARGS |-> <<
    Hex("MeterMacId", FALSE, NoMissing, FALSE, FALSE) >>]

set_fast_poll ==
  [name |-> "set_fast_poll", text |-> <<"s", "e", "t", "_", "f", "a", "s", "t", "_", "p", "o", "l", "l">>, ARGS |-> <<
    Hex("MeterMacId", FALSE, NoMissing, FALSE, FALSE),
    Ranged(Hex("Frequency", TRUE, NoMissing, FALSE, FALSE),
           Natural(<<4>>), Natural(<<15, 15, 15, 15>>)),
    Ranged(Hex("Duration", TRUE, NoMissing, FALSE, FALSE),
           Natural(<<>>), Natural(<<3, 8, 4>>)) >>]

get_profile_data ==
  [name |-> "get_profile_data", text |-> <<"g", "e", "t", "_", "p", "r", "o", "f", "i", "l", "e", "_", "d", "a", "t", "a">>, ARGS |-> <<
    Hex("MeterMacId", FALSE, NoMissing, FALSE, FALSE),
    Ranged(Hex("NumberOfPeriods", TRUE, NoMissing, FALSE, FALSE),
           Natural(<<>>), Natural(<<12>>)),
    Ranged(Hex("EndTime", TRUE, NoMissing, FALSE, FALSE),
           Natural(<<>>), Natural(<<15, 15, 15, 15, 15, 15, 15, 15>>)),
    IntervalChannel("IntervalChannel", TRUE, NoMissing, FALSE, FALSE) >>]

\* the commands of Loon.COMMANDS that command.py defines
COMMANDS == <<
    initialize, restart, factory_reset, get_connection_status,
    get_device_info, get_schedule, set_schedule, set_schedule_default,
    get_meter_list, get_meter_info, get_network_info, set_meter_info,
    get_time, get_message, confirm_message, get_current_price,
    set_current_price, get_instantaneous_demand, get_current_summation_delivered, get_current_period_usage,
    get_last_period_usage, close_current_period, set_fast_poll, get_profile_data >>

\* a keyword: a field name written in some letter case
Key(name, form) == [name |-> name, form |-> form]

\* k.lower()
lower(k) == Key(k.name, "lower")

\* {k.lower(): v for k, v in args.items()}
Lowered(args) == [i \in 1..Len(args) |-> [k |-> lower(args[i].k), v |-> args[i].v]]

\* the default arguments step: dict.update returns None, and that is what
\* args is bound to when loon is given and holds defaults
WithDefaults(loon, args) ==
    IF loon.t # "none" /\ loon.defaults # <<>> THEN None ELSE args

\* formatter(value): Formatter.__call__, the element named after the field that
\* holds encode(value)
Element(f, r) == IF r.kind = "ok" THEN Ok([name |-> f.name, text |-> r.value]) ELSE r

\* variant: a required field without a value is left out like an optional one
NoValue_lenient(f, rest) == rest

\* the except KeyError clause: a required field without a value
NoValue(f, rest) ==
    IF f.required THEN Raise("TypeError", "MissingArgument", {f.name}, "") ELSE rest

\* command.insert(0, element), or the exception that ended the loop
Insert(e, rest) ==
    IF rest.kind # "ok" THEN rest
    ELSE IF e.kind # "ok" THEN e
    ELSE Ok(<<e.value>> \o rest.value)

\* one pass of the loop body for descriptor f, rest being what the passes before
\* it left; args[...] on None raises TypeError
Pass(f, args, bits, rest) ==
    IF rest.kind # "ok" THEN rest
    ELSE IF args.t = "none" THEN Raise("TypeError", "NoneSubscript", {}, "")
    ELSE IF ~HasKey(args.v, lower(Key(f.name, "asis"))) THEN NoValue(f, rest)
    ELSE Insert(Element(f, FieldEncode(f, Get(args.v, lower(Key(f.name, "asis"))), bits)),
                rest)

RECURSIVE Formatted(_, _, _, _)
\* the loop over reversed(cls.ARGS): the children of command once the descriptors
\* from i on are processed, last first
Formatted(ARGS, i, args, bits) ==
    IF i > Len(ARGS) THEN Ok(<<>>)
    ELSE Pass(ARGS[i], args, bits, Formatted(ARGS, i + 1, args, bits))

\* command.insert(0, name); ElementTree.tostring(command)
tostring(cls, r) ==
    IF r.kind # "ok" THEN r
    ELSE Ok(<<Open("Command")>> \o Elem("Name", cls.text)
            \o Flatten([i \in 1..Len(r.value) |-> Elem(r.value[i].name, r.value[i].text)])
            \o <<Close("Command")>>)

\* Command.__new__(cls, loon, **args)
Command_new(cls, loon, args, bits) ==
    tostring(cls, Formatted(cls.ARGS, 1, WithDefaults(loon, DictV(Lowered(args))), bits))

\* LoonMeta.command_method: command(defaults=self.defaults, **args); the defaults
\* arrive as the keyword argument named defaults and loon stays None
command_method(self_defaults, command, args, bits) ==
    Command_new(command, None,
                Append(args, [k |-> Key("defaults", "asis"),
                              v |-> DictV(self_defaults)]),
                bits)

\* Loon.set_default: self._defaults[arg] = value
SetItem(d, k, v) ==
    IF HasKey(d, k) THEN [i \in 1..Len(d) |-> IF d[i].k = k THEN [k |-> k, v |-> v] ELSE d[i]]
    ELSE Append(d, [k |-> k, v |-> v])

\* Loon.set_default: del self._defaults[arg]
DelItem(d, k) == SelectSeq(d, LAMBDA e : e.k # k)

----------------------------------------------------------------------------
(* Loon._get_responses: the capture worker *)

Entry(level, what) == [level |-> level, what |-> what]

NoRecord == [tag |-> "", lines |-> <<>>]

\* n = line.rfind('<'); head, tail = line[:n], line[n:]
\* (without any '<', n is -1: head is all but the last character, tail the last)
SplitLine(line) ==
    IF \E i \in 1..Len(line) : IsTag(line[i])
    THEN LET n == CHOOSE i \in 1..Len(line) :
                      IsTag(line[i]) /\ \A j \in (i + 1)..Len(line) : ~IsTag(line[j])
         IN  [head |-> SubSeq(line, 1, n - 1), tail |-> SubSeq(line, n, Len(line))]
    ELSE LET cs == Chars(line)
             k  == Len(cs)
         IN  [head |-> IF k > 1 THEN <<Text(SubSeq(cs, 1, k - 1))>> ELSE <<>>,
              tail |-> IF k > 0 THEN <<Text(<<cs[k]>>)>> ELSE <<>>]

\* start_re.match(tail)
StartMatch(tail) == Len(tail) = 1 /\ tail[1].t = "open"

\* end_re.match(head or tail)
EndMatch(head, tail) ==
    LET s == IF head # <<>> THEN head ELSE tail
    IN  Len(s) = 1 /\ s[1].t = "close"

\* end.group(1)
EndTag(head, tail) == (IF head # <<>> THEN head ELSE tail)[1].n

\* lines 238-243: what the line adds to the buffer
Buffered(resp, line, head, start) ==
    IF start
    THEN IF head # <<>> THEN Append(resp, head) ELSE resp
    ELSE Append(resp, line)

\* variant: a new record is put at the head of the queue
Handled_front(r, out) ==
    CASE r.kind = "ok" ->
           [responses |-> <<r.value>> \o out, alive |-> TRUE, outcome |-> r,
            log |-> <<Entry("debug", "captured")>>]
      [] r.kind = "raise" /\ r.exc = "LoonError" ->
           [responses |-> out, alive |-> TRUE, outcome |-> r,
            log |-> <<Entry("error", "invalid")>>]
      [] r.kind = "raise" /\ r.exc = "SkipSignal" ->
           [responses |-> out, alive |-> TRUE, outcome |-> r,
            log |-> <<Entry("debug", "skipped")>>]
      [] OTHER ->
           [responses |-> out, alive |-> FALSE, outcome |-> r, log |-> <<>>]

\* the except and else clauses of lines 266-281 on r, what the parser returned or
\* raised; an exception that is neither LoonError nor SkipSignal leaves
\* _get_responses and ends the thread
Handled(r, out) ==
    CASE r.kind = "ok" ->
           [responses |-> Append(out, r.value), alive |-> TRUE, outcome |-> r,
            log |-> <<Entry("debug", "captured")>>]
      [] r.kind = "raise" /\ r.exc = "LoonError" ->
           [responses |-> out, alive |-> TRUE, outcome |-> r,
            log |-> <<Entry("error", "invalid")>>]
      [] r.kind = "raise" /\ r.exc = "SkipSignal" ->
           [responses |-> out, alive |-> TRUE, outcome |-> r,
            log |-> <<Entry("debug", "skipped")>>]
      [] OTHER ->
           [responses |-> out, alive |-> FALSE, outcome |-> r, log |-> <<>>]

\* lines 264-281: the parser call and its except clauses
Capture(cls, resp, out, options) == Handled(Decode(cls, resp, options), out)

\* lines 251-262: no parser is registered for the tag; the loop continues with the
\* next line without reaching the start-tag block
Unhandled(out) ==
    [start_found |-> FALSE, response |-> <<>>, responses |-> out,
     alive |-> TRUE, log |-> <<Entry("warn", "unhandled")>>,
     dispatched |-> NoRecord, outcome |-> NoOutcome, continue |-> TRUE]

\* lines 264-290 once the parser call has ended as c: the buffer is reset unless
\* the exception left the loop
Dispatched(sf, resp, tag, c) ==
    [start_found |-> IF c.alive THEN FALSE ELSE sf,
     response |-> IF c.alive THEN <<>> ELSE resp,
     responses |-> c.responses, alive |-> c.alive, log |-> c.log,
     dispatched |-> [tag |-> tag, lines |-> resp], outcome |-> c.outcome,
     continue |-> FALSE]

\* variant: an end tag without a start leaves the buffer as it is
MissingStart_keep(resp, out) ==
    [start_found |-> FALSE, response |-> resp, responses |-> out, alive |-> TRUE,
     log |-> <<Entry("warn", "missing_start")>>,
     dispatched |-> NoRecord, outcome |-> NoOutcome, continue |-> FALSE]

\* lines 283-290: an end tag while no start was found
MissingStart(resp, out) ==
    [start_found |-> FALSE, response |-> <<>>, responses |-> out, alive |-> TRUE,
     log |-> <<Entry("warn", "missing_start")>>,
     dispatched |-> NoRecord, outcome |-> NoOutcome, continue |-> FALSE]

\* lines 245-290: an end tag was matched
HandleEnd(sf, resp, out, tag, options) ==
    IF sf
    THEN IF tag \notin ParserNames
         THEN Unhandled(out)
         ELSE Dispatched(sf, resp, tag, Capture(ParserFor(tag), resp, out, options))
    ELSE MissingStart(resp, out)

\* variant: the new record is appended to the old buffer
HandleStart_leak(resp, tail) ==
    [start_found |-> TRUE, response |-> Append(resp, tail),
     log |-> IF resp # <<>> THEN <<Entry("warn", "missing_end")>> ELSE <<>>]

\* variant: the old buffer is dropped without a warning
HandleStart_silent(resp, tail) ==
    [start_found |-> TRUE, response |-> <<tail>>, log |-> <<>>]

\* variant: the start tag itself is not put into the new buffer
HandleStart_untagged(resp, tail) ==
    [start_found |-> TRUE, response |-> <<>>,
     log |-> IF resp # <<>> THEN <<Entry("warn", "missing_end")>> ELSE <<>>]

\* lines 293-301: a start tag was matched
HandleStart(resp, tail) ==
    [start_found |-> TRUE, response |-> <<tail>>,
     log |-> IF resp # <<>> THEN <<Entry("warn", "missing_end")>> ELSE <<>>]

\* line 292: the start-tag block runs last, on e, the state the end-tag block left
StartBlock(start, tail, e) ==
    IF start /\ e.alive /\ ~e.continue
    THEN [e EXCEPT !.start_found = HandleStart(e.response, tail).start_found,
                   !.response = HandleStart(e.response, tail).response,
                   !.log = @ \o HandleStart(e.response, tail).log]
    ELSE e

\* line 245: the end-tag block, or nothing
EndBlock(sf, buf, out, end, tag, options) ==
    IF end THEN HandleEnd(sf, buf, out, tag, options)
    ELSE [start_found |-> sf, response |-> buf, responses |-> out,
          alive |-> TRUE, log |-> <<>>, dispatched |-> NoRecord,
          outcome |-> NoOutcome, continue |-> FALSE]

\* lines 235-301 on the split line sp
Matched(sf, resp, out, line, options, sp) ==
    StartBlock(StartMatch(sp.tail), sp.tail,
               EndBlock(sf, Buffered(resp, line, sp.head, StartMatch(sp.tail)), out,
                        EndMatch(sp.head, sp.tail),
                        IF EndMatch(sp.head, sp.tail) THEN EndTag(sp.head, sp.tail) ELSE "",
                        options))

\* one iteration of the while loop, lines 229-301
Iteration(sf, resp, out, line, options) ==
    Matched(sf, resp, out, line, options, SplitLine(line))

----------------------------------------------------------------------------
(* The lines the transport delivers *)

hi == <<"h", "i">>
zz == <<"z", "z">>

Lines == {
    <<Open("Warning")>>,
    <<Close("Warning")>>,
    Elem("Text", hi),
    <<Open("MeterList")>>,
    <<Close("MeterList")>>,
    Elem("DeviceMacId", zz),
    <<Close("Foo")>>,
    <<Text(hi)>>,
    Elem("Text", hi) \o <<Close("Warning")>>,
    Elem("Text", hi) \o <<Open("MeterList")>>,
    <<Close("Warning"), Open("MeterList")>>,
    <<Close("Foo"), Open("Warning")>>,
    <<Close("MeterList"), Open("Warning")>>,
    <<Close("Warning"), Close("Foo")>> }

----------------------------------------------------------------------------
(* The capture worker as a state machine *)

NoInput == [cls |-> [name |-> "", scale |-> FALSE, NUMBERS |-> <<>>, TAGS |-> <<>>],
            lines |-> <<>>]

options == [use_formatting |-> use_formatting]

\* nothing was written to the transport, the stop Event is clear, no capture
\* thread was created and no caller is inside a method: Loon.__init__ lines 119-127
Idle ==
    /\ written = <<>>
    /\ stop = FALSE
    /\ thread = 0
    /\ workers = <<>>
    /\ callers = <<>>

\* the state when _get_responses starts: Loon.__init__ and lines 224-225
Init ==
    /\ start_found = FALSE
    /\ response = <<>>
    /\ responses = <<>>
    /\ alive = TRUE
    /\ log = <<>>
    /\ hist = <<>>
    /\ pre = [start_found |-> FALSE, response |-> <<>>, nlog |-> 0, nresp |-> 0]
    /\ dispatched = NoRecord
    /\ outcome = NoOutcome
    /\ use_formatting = TRUE
    /\ input = NoInput
    /\ encoded = NoOutcome
    /\ defaults = <<>>
    /\ pc = "worker"
    /\ Idle

\* the worker's state after an iteration that ended as it
Assign(it) ==
    /\ start_found' = it.start_found
    /\ response' = it.response
    /\ responses' = it.responses
    /\ alive' = it.alive
    /\ log' = log \o it.log
    /\ dispatched' = it.dispatched
    /\ outcome' = it.outcome

\* the worker reads one line and processes it
GetLine(line) ==
    /\ pc = "worker"
    /\ alive
    /\ Len(hist) < MaxLines
    /\ Assign(Iteration(start_found, response, responses, line, options))
    /\ hist' = Append(hist, line)
    /\ pre' = [start_found |-> start_found, response |-> response, nlog |-> Len(log),
               nresp |-> Len(responses)]
    /\ UNCHANGED <<written, threading, use_formatting, input, encoded, defaults, pc>>

Next == \E line \in Lines : GetLine(line)

Spec == Init /\ [][Next]_vars

----------------------------------------------------------------------------
(* The capture worker on a stream of whole records: fewer kinds of line, read *)
(* for longer, so that several records reach the output queue                 *)

MaxStream == 5

yo == <<"y", "o">>

\* the fields of a ScheduleInfo record up to the one that carries the skip sentinel
SkipFields ==
    Elem("DeviceMacId", <<"0", "x", "1", "f">>) \o Elem("MeterMacId", ScheduleInfo.TAGS[2].missing.text)

StreamLines == {
    <<Open("Warning")>>,
    Elem("Text", hi),
    Elem("Text", yo),
    <<Close("Warning")>>,
    <<Close("Warning"), Open("Warning")>>,
    <<Close("Warning"), Open("ScheduleInfo")>>,
    SkipFields,
    <<Close("ScheduleInfo"), Open("Warning")>>,
    <<Close("Foo"), Open("Warning")>> }

\* the worker reads one line of the stream and processes it
GetStreamLine(line) ==
    /\ pc = "worker"
    /\ alive
    /\ Len(hist) < MaxStream
    /\ Assign(Iteration(start_found, response, responses, line, options))
    /\ hist' = Append(hist, line)
    /\ pre' = [start_found |-> start_found, response |-> response, nlog |-> Len(log),
               nresp |-> Len(responses)]
    /\ UNCHANGED <<written, threading, use_formatting, input, encoded, defaults, pc>>

NextStream == \E line \in StreamLines : GetStreamLine(line)

SpecStream == Init /\ [][NextStream]_vars

----------------------------------------------------------------------------
(* The capture worker on records whose tags disagree: the document element,   *)
(* named by the start-tag line, and the end tag that selects the parser       *)

MaxTags == 5

TagLines == {
    <<Open("Warning")>>,
    <<Open("Error")>>,
    Elem("Text", hi),
    <<Open("Error"), Text(yo)>>,
    <<Close("Error"), Close("Warning")>>,
    <<Close("Warning")>>,
    <<Close("Error")>> }

\* the worker reads one of the lines and processes it
GetTagLine(line) ==
    /\ pc = "worker"
    /\ alive
    /\ Len(hist) < MaxTags
    /\ Assign(Iteration(start_found, response, responses, line, options))
    /\ hist' = Append(hist, line)
    /\ pre' = [start_found |-> start_found, response |-> response, nlog |-> Len(log),
               nresp |-> Len(responses)]
    /\ UNCHANGED <<written, threading, use_formatting, input, encoded, defaults, pc>>

NextTags == \E line \in TagLines : GetTagLine(line)

SpecTags == Init /\ [][NextTags]_vars

----------------------------------------------------------------------------
(* The decoder on its own: one raw record handed to one parser class *)

\* a valid wire text for each codec
Sample(kind) ==
    CASE kind = "String" -> <<"h", "i">>
      [] kind = "Integer" -> <<"1", "2">>
      [] kind = "Hex" -> <<"0", "x", "1", "f">>
      [] kind = "Date" -> <<"0", "x", "1", "0">>
      [] kind = "Currency" -> <<"0", "x", "3", "4", "8">>
      [] kind = "Boolean" -> <<"Y">>
      [] kind = "IntervalPeriod" -> <<"1">>
      [] kind = "Event" -> <<"t", "i", "m", "e">>
      [] kind = "Status" -> <<"C", "o", "n", "n", "e", "c", "t", "e", "d">>
      [] kind = "MeterType" -> <<"0", "x", "0", "0", "0", "0">>
      [] kind = "Queue" -> <<"A", "c", "t", "i", "v", "e">>
      [] kind = "IntervalChannel" -> <<"D", "e", "l", "i", "v", "e", "r", "e", "d">>

\* a second valid text for each kind, different from the first
Other(kind) ==
    CASE kind = "String" -> <<"y", "o">>
      [] kind = "Integer" -> <<"7">>
      [] kind = "Hex" -> <<"0", "x", "2", "a">>
      [] kind = "Date" -> <<"0", "x", "2", "0">>
      [] kind = "Currency" -> <<"0", "x", "2", "4">>
      [] kind = "Boolean" -> <<"N">>
      [] kind = "IntervalPeriod" -> <<"2">>
      [] kind = "Event" -> <<"p", "r", "i", "c", "e">>
      [] kind = "Status" -> <<"J", "o", "i", "n", "i", "n", "g">>
      [] kind = "MeterType" -> <<"0", "x", "0", "0", "0", "1">>
      [] kind = "Queue" -> <<"C", "a", "n", "c", "e", "l", " ", "P", "e", "n", "d", "i", "n", "g">>
      [] kind = "IntervalChannel" -> <<"R", "e", "c", "e", "i", "v", "e", "d">>

\* the descriptor carries a range
HasRange(f) == f.kind \in {"Integer", "Hex", "Date", "Currency"}

\* well-formed text for the number just above the descriptor's range
Above(f) ==
    IF f.kind = "Integer" THEN PyFormatD(IntV(Add(f.max, FromInt(1))))
    ELSE PyHex(IntV(Add(f.max, FromInt(1))))

\* text no numeric, Boolean or enumeration codec accepts
Garbage == zz
\* a number that is a known value of neither the currency table nor INTERVALS
Nine == <<"9">>
\* the sentinel of the probe descriptors
ff == <<"0", "x", "f", "f">>

\* one-descriptor parser classes, for every combination of flags that
\* Formatter.__init__ accepts
Probes ==
    {[name |-> "Probe", scale |-> FALSE, NUMBERS |-> <<>>,
      TAGS |-> <<IF k = "Hex" THEN Hex("Value", r, m, s, q)
                 ELSE Boolean("Value", r, m, s, q)>>] :
        k \in {"Hex", "Boolean"}, r \in BOOLEAN, m \in {NoMissing, Missing(ff)},
        s \in BOOLEAN, q \in BOOLEAN}

ProbeClasses == {c \in Probes :
    FormatterInitOK(c.TAGS[1].required, c.TAGS[1].missing, c.TAGS[1].skip,
                    c.TAGS[1].sequence)}

Catalog == {PARSERS[i] : i \in 1..Len(PARSERS)}

Classes == Catalog \cup ProbeClasses

DescNames(cls) == {cls.TAGS[i].name : i \in 1..Len(cls.TAGS)}

\* the first descriptor of the class that carries the name
FirstDesc(cls, n) ==
    cls.TAGS[CHOOSE i \in 1..Len(cls.TAGS) :
                 cls.TAGS[i].name = n /\ \A j \in 1..(i - 1) : cls.TAGS[j].name # n]

\* the descriptors whose name no earlier descriptor carries, in schema order
RECURSIVE FirstDescs(_, _)
FirstDescs(TAGS, seen) ==
    IF TAGS = <<>> THEN <<>>
    ELSE IF Head(TAGS).name \in seen THEN FirstDescs(Tail(TAGS), seen)
    ELSE <<Head(TAGS)>> \o FirstDescs(Tail(TAGS), seen \cup {Head(TAGS).name})

El(n, s) == [name |-> n, text |-> s, sub |-> FALSE]

\* a record with one valid element for every field name of the class
ValidElems(cls) ==
    LET ds == FirstDescs(cls.TAGS, {})
    IN  [i \in 1..Len(ds) |-> El(ds[i].name, Sample(ds[i].kind))]

\* the sentinel text declared for the name, if any descriptor declares one
HasSentinel(cls, n) ==
    \E i \in 1..Len(cls.TAGS) : cls.TAGS[i].name = n /\ cls.TAGS[i].missing.set
SentinelOf(cls, n) ==
    cls.TAGS[CHOOSE i \in 1..Len(cls.TAGS) :
                 cls.TAGS[i].name = n /\ cls.TAGS[i].missing.set].missing.text

RECURSIVE Rewrite(_, _, _)
\* the elements called n replaced by the elements with
Rewrite(elems, n, with) ==
    IF elems = <<>> THEN <<>>
    ELSE IF Head(elems).name = n THEN with \o Rewrite(Tail(elems), n, with)
    ELSE <<Head(elems)>> \o Rewrite(Tail(elems), n, with)

Ops == {"drop", "sentinel", "sentinel2", "mixed", "garbage", "nine", "twice", "nested",
        "pair", "above"}

Perturb(cls, elems, p) ==
    LET n == p.name
        v == Sample(FirstDesc(cls, n).kind)
    IN  CASE p.op = "none" -> elems
          [] p.op = "extra" -> Append(elems, El("Bogus", hi))
          [] p.op = "drop" -> Rewrite(elems, n, <<>>)
          [] p.op = "sentinel" -> Rewrite(elems, n, <<El(n, SentinelOf(cls, n))>>)
          [] p.op = "sentinel2" ->
                Rewrite(elems, n, <<El(n, SentinelOf(cls, n)), El(n, SentinelOf(cls, n))>>)
          [] p.op = "mixed" -> Rewrite(elems, n, <<El(n, SentinelOf(cls, n)), El(n, v)>>)
          [] p.op = "garbage" -> Rewrite(elems, n, <<El(n, Garbage)>>)
          [] p.op = "nine" -> Rewrite(elems, n, <<El(n, Nine)>>)
          [] p.op = "twice" -> Rewrite(elems, n, <<El(n, v), El(n, v)>>)
          [] p.op = "pair" ->
                Rewrite(elems, n, <<El(n, v), El(n, Other(FirstDesc(cls, n).kind))>>)
          [] p.op = "above" -> Rewrite(elems, n, <<El(n, Above(FirstDesc(cls, n)))>>)
          [] p.op = "nested" -> Rewrite(elems, n, <<[name |-> n, text |-> v, sub |-> TRUE]>>)

NoPert == [op |-> "none", name |-> ""]

Perts(cls) ==
    {NoPert, [op |-> "extra", name |-> "Bogus"]}
    \cup {p \in [op : Ops, name : DescNames(cls)] :
              /\ p.op \in {"sentinel", "sentinel2", "mixed"} => HasSentinel(cls, p.name)
              /\ p.op = "above" => ~cls.scale /\ HasRange(FirstDesc(cls, p.name))}

\* the second change made to a record is one of the plain ones
SecondPerts(cls) == {p \in Perts(cls) : p.op \in {"none", "extra", "drop", "sentinel", "garbage"}}

ElemLine(e) ==
    IF e.sub
    THEN <<Open(e.name)>> \o (IF e.text = <<>> THEN <<>> ELSE <<Text(e.text)>>)
         \o <<Open("Bogus"), Close("Bogus"), Close(e.name)>>
    ELSE Elem(e.name, e.text)

\* the record as the worker buffers it: the start-tag line, one line for each
\* element, the end-tag line
RecordLines(tag, elems) ==
    <<<<Open(tag)>>>> \o [i \in 1..Len(elems) |-> ElemLine(elems[i])] \o <<<<Close(tag)>>>>

\* a record whose end tag names another element: not well-formed
BrokenLines(tag, elems) ==
    <<<<Open(tag)>>>> \o [i \in 1..Len(elems) |-> ElemLine(elems[i])] \o <<<<Close("Foo")>>>>

\* the class and record under test: a valid record with up to two changes, or one
\* that is not well-formed
IsInput(x) ==
    \E c \in Classes :
        \/ \E p1 \in Perts(c), p2 \in SecondPerts(c) :
               x = [cls |-> c,
                    lines |-> RecordLines(c.name,
                                          Perturb(c, Perturb(c, ValidElems(c), p1), p2))]
        \/ x = [cls |-> c, lines |-> BrokenLines(c.name, ValidElems(c))]

InitDecode ==
    /\ start_found = FALSE
    /\ response = <<>>
    /\ responses = <<>>
    /\ alive = TRUE
    /\ log = <<>>
    /\ hist = <<>>
    /\ pre = [start_found |-> FALSE, response |-> <<>>, nlog |-> 0, nresp |-> 0]
    /\ dispatched = NoRecord
    /\ outcome = NoOutcome
    /\ IsInput(input)
    /\ use_formatting \in (IF input.cls.scale THEN BOOLEAN ELSE {TRUE})
    /\ encoded = NoOutcome
    /\ defaults = <<>>
    /\ pc = "ready"
    /\ Idle

\* the queue and the log after a parser call that ended as c
Queued(c) ==
    /\ responses' = c.responses
    /\ alive' = c.alive
    /\ log' = log \o c.log
    /\ outcome' = c.outcome

\* lines 264-281 applied to the record
DecodeRecord ==
    /\ pc = "ready"
    /\ Queued(Capture(input.cls, input.lines, responses, options))
    /\ dispatched' = [tag |-> input.cls.name, lines |-> input.lines]
    /\ pc' = "done"
    /\ UNCHANGED <<written, threading, start_found, response, hist, pre, use_formatting, input, encoded,
                   defaults>>

NextDecode == DecodeRecord

SpecDecode == InitDecode /\ [][NextDecode]_vars

----------------------------------------------------------------------------
(* The scaling extension on its own: one record of a scaled response type     *)
(* with a reading, a Multiplier and a Divisor                                 *)

ScaleClasses == {c \in Catalog : c.scale}

Readings    == {0, 3, 31, 49}
Multipliers == {0, 1, 3, 31}
Divisors    == {0, 1, 9, 10, 49}

\* the wire text of a number, as hex() writes it
HexOf(i) == PyHex(IntV(FromInt(i)))

RECURSIVE SetFields(_, _, _, _)
\* the elements with the text of every field named from position i on replaced
SetFields(elems, names, i, text) ==
    IF i > Len(names) THEN elems
    ELSE SetFields(Rewrite(elems, names[i], <<El(names[i], text)>>), names, i + 1, text)

\* the valid record of the class with the reading in every scaled field
ScaleRecord(c, raw, multiplier, divisor) ==
    RecordLines(c.name,
                SetFields(SetFields(SetFields(ValidElems(c), c.NUMBERS, 1, HexOf(raw)),
                                    <<"Multiplier">>, 1, HexOf(multiplier)),
                          <<"Divisor">>, 1, HexOf(divisor)))

InitScale ==
    /\ start_found = FALSE
    /\ response = <<>>
    /\ responses = <<>>
    /\ alive = TRUE
    /\ log = <<>>
    /\ hist = <<>>
    /\ pre = [start_found |-> FALSE, response |-> <<>>, nlog |-> 0, nresp |-> 0]
    /\ dispatched = NoRecord
    /\ outcome = NoOutcome
    /\ \E c \in ScaleClasses, raw \in Readings, m \in Multipliers, d \in Divisors :
           input = [cls |-> c, lines |-> ScaleRecord(c, raw, m, d),
                    raw |-> raw, multiplier |-> m, divisor |-> d]
    /\ use_formatting \in BOOLEAN
    /\ encoded = NoOutcome
    /\ defaults = <<>>
    /\ pc = "ready"
    /\ Idle

SpecScale == InitScale /\ [][NextDecode]_vars

----------------------------------------------------------------------------
(* The field codecs on their own: one descriptor with one value to encode and *)
(* parse back, or with one wire text to parse                                 *)

\* the descriptors of the response catalog and of the commands
Fields ==
    UNION {{c.TAGS[i] : i \in 1..Len(c.TAGS)} : c \in Catalog}
    \cup UNION {{COMMANDS[k].ARGS[i] : i \in 1..Len(COMMANDS[k].ARGS)} :
                   k \in 1..Len(COMMANDS)}

\* the widths of a C long: sys.maxint is 2^31 - 1 or 2^63 - 1
Bits == {32, 64}

\* the numbers at and next to the ends of the descriptor's range, 99, and the
\* numbers at and next to the end of a 32-bit int
Near(f) ==
    {Sub(f.min, FromInt(1)), f.min, Add(f.min, FromInt(1)),
     Sub(f.max, FromInt(1)), f.max, Add(f.max, FromInt(1)),
     FromInt(99), MaxInt(32), Add(MaxInt(32), FromInt(1))}

\* the ordinals around a vocabulary of n variants
Ordinals(n) == {IntV(Num(i < 0, MagOf(IF i < 0 THEN 0 - i ELSE i))) : i \in (0 - n - 1)..n}

\* the objects handed to encode
Values(f, bits) ==
    CASE f.kind \in {"Integer", "Hex"} -> {PyNumber(n, bits) : n \in Near(f)}
      [] f.kind = "Date" -> {DateV(Add(n, FromInt(EPOCH))) : n \in Near(f)}
      [] f.kind = "Currency" ->
            {StrV(currency_code[n]) : n \in DOMAIN currency_code} \cup {StrV(zz)}
      [] f.kind = "Boolean" -> {BoolV(TRUE), BoolV(FALSE)}
      [] f.kind = "IntervalPeriod" ->
            {IntV(FromInt(INTERVALS[i])) : i \in 1..Len(INTERVALS)} \cup {IntV(FromInt(7))}
      [] f.kind \in EnumerationKinds ->
            {NameV(LEVELS(f.kind)[i][1]) : i \in 1..Len(LEVELS(f.kind))}
            \cup {NameV("bogus")} \cup Ordinals(Len(LEVELS(f.kind)))
      [] f.kind = "String" -> {StrV(hi)}

\* a wire text with the object it is the text of
Texts(f) ==
    CASE f.kind = "Integer" -> {[obj |-> IntV(n), text |-> PyFormatD(IntV(n))] : n \in Near(f)}
      [] f.kind = "Hex" -> {[obj |-> IntV(n), text |-> PyHex(IntV(n))] : n \in Near(f)}
      [] f.kind = "Date" ->
            {[obj |-> DateV(Add(n, FromInt(EPOCH))), text |-> PyHex(IntV(n))] : n \in Near(f)}
      [] f.kind = "IntervalPeriod" ->
            {[obj |-> o, text |-> PyFormatD(o)] : o \in Ordinals(Len(INTERVALS))}
      [] f.kind \in EnumerationKinds ->
            {[obj |-> NameV(LEVELS(f.kind)[i][1]), text |-> LEVELS(f.kind)[i][2]] :
                 i \in 1..Len(LEVELS(f.kind))}
            \cup {[obj |-> NameV("bogus"), text |-> zz]}
      [] f.kind = "Boolean" ->
            {[obj |-> BoolV(TRUE), text |-> <<"Y">>], [obj |-> BoolV(FALSE), text |-> <<"N">>],
             [obj |-> StrV(zz), text |-> zz]}
      [] f.kind = "Currency" ->
            {[obj |-> StrV(currency_code[n]), text |-> PyHex(IntV(FromInt(n)))] :
                 n \in DOMAIN currency_code}
      [] f.kind = "String" -> {[obj |-> StrV(hi), text |-> hi]}

InitCodec ==
    /\ start_found = FALSE
    /\ response = <<>>
    /\ responses = <<>>
    /\ alive = TRUE
    /\ log = <<>>
    /\ hist = <<>>
    /\ pre = [start_found |-> FALSE, response |-> <<>>, nlog |-> 0, nresp |-> 0]
    /\ dispatched = NoRecord
    /\ outcome = NoOutcome
    /\ use_formatting = TRUE
    /\ \E f \in Fields, bits \in Bits :
           \/ \E obj \in Values(f, bits) :
                  /\ input = [f |-> f, bits |-> bits, obj |-> obj, text |-> <<>>]
                  /\ pc = "value"
           \/ \E t \in Texts(f) :
                  /\ input = [f |-> f, bits |-> bits, obj |-> t.obj, text |-> t.text]
                  /\ pc = "text"
    /\ encoded = NoOutcome
    /\ defaults = <<>>
    /\ Idle

\* formatter.encode(obj)
EncodeValue ==
    /\ pc = "value"
    /\ encoded' = FieldEncode(input.f, input.obj, input.bits)
    /\ pc' = "encoded"
    /\ UNCHANGED <<written, threading, start_found, response, responses, alive, log, hist, pre, dispatched,
                   outcome, use_formatting, input, defaults>>

\* formatter._parse(text) on the text encode returned
ParseBack ==
    /\ pc = "encoded"
    /\ encoded.kind = "ok"
    /\ outcome' = FieldParse(input.f.kind, encoded.value)
    /\ pc' = "back"
    /\ UNCHANGED <<written, threading, start_found, response, responses, alive, log, hist, pre, dispatched,
                   use_formatting, input, encoded, defaults>>

\* formatter._parse(text) on a text from the wire
ParseText ==
    /\ pc = "text"
    /\ outcome' = FieldParse(input.f.kind, input.text)
    /\ pc' = "parsed"
    /\ UNCHANGED <<written, threading, start_found, response, responses, alive, log, hist, pre, dispatched,
                   use_formatting, input, encoded, defaults>>

NextCodec == EncodeValue \/ ParseBack \/ ParseText

SpecCodec == InitCodec /\ [][NextCodec]_vars

----------------------------------------------------------------------------
(* The descriptor constructor on its own: one descriptor class called with    *)
(* one combination of flags                                                   *)

Kinds == {"String", "Integer", "Hex", "Date", "Currency", "Boolean", "IntervalPeriod"}
         \cup EnumerationKinds

\* the missing argument: None, the empty string or a sentinel text
MissingArgs == {NoMissing, Missing(<<>>), Missing(ff)}

\* kind(name, required, missing, skip, sequence): every descriptor class runs
\* Formatter.__init__, which raises TypeError or stores the five attributes
Formatter_init(kind, name, required, missing, skip, sequence) ==
    IF FormatterInitOK(required, missing, skip, sequence)
    THEN Ok(Formatter(kind, name, required, missing, skip, sequence))
    ELSE Raise("TypeError",
               IF required /\ missing.set /\ ~(skip \/ sequence) THEN "RequiredAndMissing"
               ELSE "SkipWithoutMissing", {name}, "")

InitFormatter ==
    /\ start_found = FALSE
    /\ response = <<>>
    /\ responses = <<>>
    /\ alive = TRUE
    /\ log = <<>>
    /\ hist = <<>>
    /\ pre = [start_found |-> FALSE, response |-> <<>>, nlog |-> 0, nresp |-> 0]
    /\ dispatched = NoRecord
    /\ outcome = NoOutcome
    /\ use_formatting = TRUE
    /\ \E k \in Kinds, r \in BOOLEAN, m \in MissingArgs, s \in BOOLEAN, q \in BOOLEAN :
           input = [kind |-> k, name |-> "Value", required |-> r, missing |-> m,
                    skip |-> s, sequence |-> q]
    /\ encoded = NoOutcome
    /\ defaults = <<>>
    /\ pc = "new"
    /\ Idle

\* the descriptor class is called
Construct ==
    /\ pc = "new"
    /\ encoded' = Formatter_init(input.kind, input.name, input.required, input.missing,
                                 input.skip, input.sequence)
    /\ pc' = "built"
    /\ UNCHANGED <<written, threading, start_found, response, responses, alive, log,
                   hist, pre, dispatched, outcome, use_formatting, input, defaults>>

NextFormatter == Construct

SpecFormatter == InitFormatter /\ [][NextFormatter]_vars

----------------------------------------------------------------------------
(* The commands: one command class called with keyword arguments, through the *)
(* method LoonMeta adds to Loon or directly with the Loon object              *)

\* the number of entries Loon._defaults takes in one behaviour
MaxDefaults == 2

\* a value the field's codec encodes, one for the caller and another for the defaults
Good(f) ==
    CASE f.kind = "Hex" -> IntV(Add(f.min, FromInt(1)))
      [] f.kind = "Boolean" -> BoolV(TRUE)
      [] f.kind = "String" -> StrV(hi)
      [] f.kind \in EnumerationKinds -> NameV(LEVELS(f.kind)[1][1])
Default(f) ==
    CASE f.kind = "Hex" -> IntV(f.min)
      [] f.kind = "Boolean" -> BoolV(FALSE)
      [] f.kind = "String" -> StrV(<<"y", "o">>)
      [] f.kind \in EnumerationKinds -> NameV(LEVELS(f.kind)[2][1])

\* a value the field's codec refuses
Bad(f) == IF f.kind = "Hex" THEN IntV(Add(f.max, FromInt(1))) ELSE NameV("bogus")

\* what the caller does with a field: no value, a value under the name as written
\* or in upper case, or a value the codec refuses
Choices(f) ==
    {"none", "asis"}
    \cup (IF f.kind = "String" THEN {} ELSE {"upper"})
    \cup (IF f.kind = "Hex" \/ f.kind \in EnumerationKinds THEN {"bad"} ELSE {})

RECURSIVE Keywords(_, _, _)
\* the keyword arguments of the choices ch for the descriptors from i on
Keywords(ARGS, ch, i) ==
    IF i > Len(ARGS) THEN <<>>
    ELSE (IF ch[i] = "none" THEN <<>>
          ELSE <<[k |-> Key(ARGS[i].name, IF ch[i] = "upper" THEN "upper" ELSE "asis"),
                  v |-> IF ch[i] = "bad" THEN Bad(ARGS[i]) ELSE Good(ARGS[i])]>>)
         \o Keywords(ARGS, ch, i + 1)

\* the names under which set_default is called for descriptor i: as written for
\* the odd descriptors, in lower case for the even ones
DefaultKey(ARGS, i) == Key(ARGS[i].name, IF i % 2 = 1 THEN "asis" ELSE "lower")

InitCommand ==
    /\ start_found = FALSE
    /\ response = <<>>
    /\ responses = <<>>
    /\ alive = TRUE
    /\ log = <<>>
    /\ hist = <<>>
    /\ pre = [start_found |-> FALSE, response |-> <<>>, nlog |-> 0, nresp |-> 0]
    /\ dispatched = NoRecord
    /\ outcome = NoOutcome
    /\ use_formatting = TRUE
    /\ \E k \in 1..Len(COMMANDS) :
           \E ch \in [1..Len(COMMANDS[k].ARGS) -> {"none", "asis", "upper", "bad"}] :
               /\ \A i \in 1..Len(COMMANDS[k].ARGS) : ch[i] \in Choices(COMMANDS[k].ARGS[i])
               /\ input = [cls |-> COMMANDS[k], ch |-> ch,
                           args |-> Keywords(COMMANDS[k].ARGS, ch, 1)]
    /\ encoded = NoOutcome
    /\ defaults = <<>>
    /\ pc = "command"
    /\ Idle

\* Loon.set_default(arg, value) with a value
SetDefault(i) ==
    /\ pc = "command"
    /\ Len(defaults) < MaxDefaults
    /\ defaults' = SetItem(defaults, DefaultKey(input.cls.ARGS, i), Default(input.cls.ARGS[i]))
    /\ UNCHANGED <<written, threading, start_found, response, responses, alive, log, hist, pre, dispatched,
                   outcome, use_formatting, input, encoded, pc>>

\* Loon.set_default(arg) for an argument that has a default
DelDefault(i) ==
    /\ pc = "command"
    /\ HasKey(defaults, DefaultKey(input.cls.ARGS, i))
    /\ defaults' = DelItem(defaults, DefaultKey(input.cls.ARGS, i))
    /\ UNCHANGED <<written, threading, start_found, response, responses, alive, log, hist, pre, dispatched,
                   outcome, use_formatting, input, encoded, pc>>

\* variant: the transport is written to even when the command class raised
write_always(out, r) == Append(out, IF r.kind = "ok" THEN r.value ELSE <<>>)

\* self._serial.write(command(...)), loon.py 53: the argument is evaluated first,
\* and when the command class raises, write is never called
write(out, r) == IF r.kind = "ok" THEN Append(out, r.value) ELSE out

\* loon.<command>(**args): the method writes what the command class returns
CallMethod ==
    /\ pc = "command"
    /\ encoded' = command_method(defaults, input.cls, input.args, 64)
    /\ written' = write(written, encoded')
    /\ pc' = "method"
    /\ UNCHANGED <<threading, start_found, response, responses, alive, log, hist, pre, dispatched,
                   outcome, use_formatting, input, defaults>>

\* <command>(loon, **args)
CallCommand ==
    /\ pc = "command"
    /\ encoded' = Command_new(input.cls, [t |-> "Loon", defaults |-> defaults], input.args, 64)
    /\ pc' = "direct"
    /\ UNCHANGED <<written, threading, start_found, response, responses, alive, log, hist, pre, dispatched,
                   outcome, use_formatting, input, defaults>>

NextCommand ==
    \/ \E i \in 1..Len(input.cls.ARGS) : SetDefault(i) \/ DelDefault(i)
    \/ CallMethod
    \/ CallCommand

SpecCommand == InitCommand /\ [][NextCommand]_vars

----------------------------------------------------------------------------
(* The threads of a Loon object: two caller threads that call start_capture,  *)
(* stop_capture, set_default and command methods, and the capture threads     *)
(* that start_capture creates.  A step is one access to the Loon object; the  *)
(* interpreter may switch threads between any two steps.                      *)

\* the number of method calls the callers make in one behaviour
MaxCalls == 3
\* the number of lines the transport delivers in one behaviour
MaxReads == 3

Callers == {1, 2}

\* the transport delivers a Warning record over and over
Stream == <<<<Open("Warning")>>, Elem("Text", hi), <<Close("Warning")>>>>
StreamLine(i) == Stream[((i - 1) % Len(Stream)) + 1]

\* the commands the callers issue: one that encodes without arguments and one
\* that raises for its missing required arguments
ThreadCommands == {get_schedule, set_schedule}

\* the defaults the callers set: a value, or None to delete
ThreadDefaults == {[k |-> Key("MeterMacId", "asis"), v |-> IntV(FromInt(1))],
                   [k |-> Key("MeterMacId", "asis"), v |-> None]}

\* a caller outside every method
NoCall == [pc |-> "idle", arg |-> [k |-> Key("", "asis"), v |-> None], cls |-> initialize,
           snap |-> <<>>, raised |-> "", calls |-> 0, method |-> ""]

\* Thread(target=self._get_responses): not started; lines 224-225 give the locals
\* their first values when the thread runs
NewThread == [pc |-> "new", start_found |-> FALSE, response |-> <<>>,
              stopped |-> FALSE, late |-> FALSE]

\* Thread.is_alive()
is_alive(w) == w.pc \in {"test", "read"}

\* variant: any thread object counts as capturing
capturing_created == thread # 0

\* Loon.capturing: self._thread and self._thread.is_alive()
capturing == thread # 0 /\ is_alive(workers[thread])

\* the calls begun so far
Calls == callers[1].calls + callers[2].calls

InitThreads ==
    /\ start_found = FALSE
    /\ response = <<>>
    /\ responses = <<>>
    /\ alive = TRUE
    /\ log = <<>>
    /\ hist = <<>>
    /\ pre = [start_found |-> FALSE, response |-> <<>>, nlog |-> 0, nresp |-> 0]
    /\ dispatched = NoRecord
    /\ outcome = NoOutcome
    /\ use_formatting = TRUE
    /\ input = NoInput
    /\ encoded = NoOutcome
    /\ defaults = <<>>
    /\ pc = "threads"
    /\ written = <<>>
    /\ stop = FALSE
    /\ thread = 0
    /\ workers = <<>>
    /\ callers = [c \in Callers |-> NoCall]

\* what no thread step changes
Untouched == UNCHANGED <<start_found, response, alive, pre, dispatched, outcome,
                         use_formatting, input, pc>>

\* the caller begins a call
Begins(c) == callers[c].pc = "idle" /\ Calls < MaxCalls

\* the caller c is at p afterwards
At(c, p) == [callers EXCEPT ![c].pc = p]
Entered(c, p) == [callers EXCEPT ![c].pc = p, ![c].calls = @ + 1, ![c].raised = ""]
\* the caller c has entered the method m last
Method(cs, c, m) == [cs EXCEPT ![c].method = m]
Raised(c, exc) == [callers EXCEPT ![c].pc = "idle", ![c].raised = exc]

\* start_capture, line 182: if not self.capturing
StartCheck(c) ==
    /\ Begins(c)
    /\ callers' = Method(Entered(c, IF capturing THEN "idle" ELSE "initialize"),
                         c, "start_capture")
    /\ UNCHANGED <<responses, log, hist, encoded, defaults, written, stop, thread, workers>>
    /\ Untouched

\* start_capture, line 183: self.initialize()
StartInitialize(c) ==
    /\ callers[c].pc = "initialize"
    /\ written' = write(written, command_method(defaults, initialize, <<>>, 64))
    /\ callers' = At(c, "clear")
    /\ UNCHANGED <<responses, log, hist, encoded, defaults, stop, thread, workers>>
    /\ Untouched

\* start_capture, line 185: self._stop.clear()
StartClear(c) ==
    /\ callers[c].pc = "clear"
    /\ stop' = FALSE
    /\ callers' = At(c, "create")
    /\ UNCHANGED <<responses, log, hist, encoded, defaults, written, thread, workers>>
    /\ Untouched

\* start_capture, line 186: self._thread = Thread(target=self._get_responses)
StartCreate(c) ==
    /\ callers[c].pc = "create"
    /\ workers' = Append(workers, NewThread)
    /\ thread' = Len(workers) + 1
    /\ callers' = At(c, "daemon")
    /\ UNCHANGED <<responses, log, hist, encoded, defaults, written, stop>>
    /\ Untouched

\* start_capture, line 187: self._thread.daemon = True, on the thread the
\* attribute holds now; RuntimeError for a thread that was started
StartDaemon(c) ==
    /\ callers[c].pc = "daemon"
    /\ callers' = IF workers[thread].pc = "new" THEN At(c, "start")
                  ELSE Raised(c, "RuntimeError")
    /\ UNCHANGED <<responses, log, hist, encoded, defaults, written, stop, thread, workers>>
    /\ Untouched

\* start_capture, line 188: self._thread.start(), on the thread the attribute
\* holds now; RuntimeError for a thread that was started
StartThread(c) ==
    /\ callers[c].pc = "start"
    /\ IF workers[thread].pc = "new"
       THEN /\ workers' = [workers EXCEPT ![thread].pc = "test"]
            /\ callers' = At(c, "idle")
       ELSE /\ workers' = workers
            /\ callers' = Raised(c, "RuntimeError")
    /\ UNCHANGED <<responses, log, hist, encoded, defaults, written, stop, thread>>
    /\ Untouched

\* stop_capture, line 193: self._stop.set(); the threads alive at the call are
\* the ones it is to stop
StopCapture(c) ==
    /\ Begins(c)
    /\ stop' = TRUE
    /\ workers' = [w \in 1..Len(workers) |->
                      IF is_alive(workers[w]) THEN [workers[w] EXCEPT !.stopped = TRUE]
                      ELSE workers[w]]
    /\ callers' = Method(Entered(c, "idle"), c, "stop_capture")
    /\ UNCHANGED <<responses, log, hist, encoded, defaults, written, thread>>
    /\ Untouched

\* set_default(arg, value) is entered: line 204, the test of value
SetDefaultCall(c, a) ==
    /\ Begins(c)
    /\ callers' = Method([Entered(c, "store") EXCEPT ![c].arg = a], c, "set_default")
    /\ UNCHANGED <<responses, log, hist, encoded, defaults, written, stop, thread, workers>>
    /\ Untouched

\* set_default, lines 205 and 207: the store into, or the deletion from,
\* self._defaults; KeyError when there is nothing to delete
SetDefaultStore(c) ==
    /\ callers[c].pc = "store"
    /\ IF callers[c].arg.v.t # "none"
       THEN /\ defaults' = SetItem(defaults, callers[c].arg.k, callers[c].arg.v)
            /\ callers' = At(c, "idle")
       ELSE IF HasKey(defaults, callers[c].arg.k)
       THEN /\ defaults' = DelItem(defaults, callers[c].arg.k)
            /\ callers' = At(c, "idle")
       ELSE /\ defaults' = defaults
            /\ callers' = Raised(c, "KeyError")
    /\ UNCHANGED <<responses, log, hist, encoded, written, stop, thread, workers>>
    /\ Untouched

\* a command method is entered, line 53: self.defaults is about to be read
CommandCall(c, cls) ==
    /\ Begins(c)
    /\ callers' = Method([Entered(c, "defaults") EXCEPT ![c].cls = cls], c, "command")
    /\ UNCHANGED <<responses, log, hist, encoded, defaults, written, stop, thread, workers>>
    /\ Untouched

\* Loon.defaults, line 219: self._defaults.copy()
DefaultsCopy(c) ==
    /\ callers[c].pc = "defaults"
    /\ callers' = [At(c, "encode") EXCEPT ![c].snap = defaults]
    /\ UNCHANGED <<responses, log, hist, encoded, defaults, written, stop, thread, workers>>
    /\ Untouched

\* variant: the command method also empties the output queue
CommandWrite_flush(c) ==
    /\ callers[c].pc = "encode"
    /\ encoded' = command_method(callers[c].snap, callers[c].cls, <<>>, 64)
    /\ written' = write(written, encoded')
    /\ callers' = IF encoded'.kind = "ok" THEN At(c, "idle") ELSE Raised(c, encoded'.exc)
    /\ responses' = <<>>
    /\ UNCHANGED <<log, hist, defaults, stop, thread, workers>>
    /\ Untouched

\* the command method, line 53: the command is encoded with the copy of the
\* defaults and written
CommandWrite(c) ==
    /\ callers[c].pc = "encode"
    /\ encoded' = command_method(callers[c].snap, callers[c].cls, <<>>, 64)
    /\ written' = write(written, encoded')
    /\ callers' = IF encoded'.kind = "ok" THEN At(c, "idle") ELSE Raised(c, encoded'.exc)
    /\ UNCHANGED <<responses, log, hist, defaults, stop, thread, workers>>
    /\ Untouched

\* _get_responses, line 227: while not self._stop.is_set()
TestStop(w) ==
    /\ workers[w].pc = "test"
    /\ workers' = [workers EXCEPT ![w].pc = IF stop THEN "dead" ELSE "read",
                                  ![w].late = @ \/ (~stop /\ workers[w].stopped)]
    /\ UNCHANGED <<responses, log, hist, encoded, defaults, written, stop, thread, callers>>
    /\ Untouched

\* the thread after an iteration that ended as it
Iterated(w, it) ==
    [workers EXCEPT ![w].pc = IF it.alive THEN "test" ELSE "dead",
                    ![w].start_found = it.start_found,
                    ![w].response = it.response]

\* _get_responses, lines 229-301: the blocking read returns a line and the line
\* is processed
ReadLine(w) ==
    /\ workers[w].pc = "read"
    /\ Len(hist) < MaxReads
    /\ hist' = Append(hist, StreamLine(Len(hist) + 1))
    /\ workers' = Iterated(w, Iteration(workers[w].start_found, workers[w].response,
                                        responses, StreamLine(Len(hist) + 1), options))
    /\ responses' = Iteration(workers[w].start_found, workers[w].response,
                              responses, StreamLine(Len(hist) + 1), options).responses
    /\ log' = log \o Iteration(workers[w].start_found, workers[w].response,
                               responses, StreamLine(Len(hist) + 1), options).log
    /\ UNCHANGED <<encoded, defaults, written, stop, thread, callers>>
    /\ Untouched

NextThreads ==
    \/ \E c \in Callers :
           \/ StartCheck(c) \/ StartInitialize(c) \/ StartClear(c) \/ StartCreate(c)
           \/ StartDaemon(c) \/ StartThread(c)
           \/ StopCapture(c)
           \/ \E a \in ThreadDefaults : SetDefaultCall(c, a)
           \/ SetDefaultStore(c)
           \/ \E cls \in ThreadCommands : CommandCall(c, cls)
           \/ DefaultsCopy(c)
           \/ CommandWrite(c)
    \/ \E w \in 1..Len(workers) : TestStop(w) \/ ReadLine(w)

SpecThreads == InitThreads /\ [][NextThreads]_vars

----------------------------------------------------------------------------
(* Properties of the capture worker (specification Spec) *)

N == Len(hist)

BareStart(line) == Len(line) = 1 /\ line[1].t = "open"
BareEnd(line)   == Len(line) = 1 /\ line[1].t = "close"

\* the worker reads the line neither as a start nor as an end
PlainLine(line) ==
    LET sp == SplitLine(line)
    IN  ~StartMatch(sp.tail) /\ ~EndMatch(sp.head, sp.tail)

\* the worker reads the line as a start and not as an end
StartsRecord(line) ==
    LET sp == SplitLine(line)
    IN  StartMatch(sp.tail) /\ ~EndMatch(sp.head, sp.tail)

\* what the last line made the worker log
StepLog == SubSeq(log, pre.nlog + 1, Len(log))

Logged(entries, what) == \E k \in 1..Len(entries) : entries[k].what = what

\* lines i..N are <T>, ..., </T> for a registered T
Framed(i) ==
    /\ BareStart(hist[i])
    /\ BareEnd(hist[N])
    /\ hist[N][1].n = hist[i][1].n
    /\ hist[i][1].n \in ParserNames

\* C1 as claimed: from any state, the lines <T>, field lines of which none is a bare
\* start tag or a bare end tag, </T> (T registered) are handed to the decoder as
\* exactly those lines
C1_AnyFieldLines ==
    \A i \in 1..(N - 1) :
        (Framed(i) /\ \A j \in (i + 1)..(N - 1) : ~BareStart(hist[j]) /\ ~BareEnd(hist[j]))
        => dispatched = [tag |-> hist[i][1].n, lines |-> SubSeq(hist, i, N)]

\* C1 amended: from any state, the lines <T>, field lines that the worker reads
\* neither as a start (the text from the last '<' is no bare start tag) nor as an end
\* (neither the text before the last '<' nor, without it, the line is a bare end
\* tag), </T> (T registered) are handed to the decoder as exactly those lines; and
\* <Warning>, <Text>hi</Text>, </Warning> appends one record of type Warning
C1_SelfHealing ==
    /\ \A i \in 1..(N - 1) :
           (Framed(i) /\ \A j \in (i + 1)..(N - 1) : PlainLine(hist[j]))
           => dispatched = [tag |-> hist[i][1].n, lines |-> SubSeq(hist, i, N)]
    /\ (N >= 3 /\ SubSeq(hist, N - 2, N)
                    = <<<<Open("Warning")>>, Elem("Text", hi), <<Close("Warning")>>>>)
       => /\ outcome.kind = "ok"
          /\ Len(responses) = pre.nresp + 1
          /\ Get(responses[Len(responses)], "response_type") = TagV("Warning")

\* C1 witness: a well-formed record read after a line of noise that was still in
\* the buffer
C1_Witness ==
    /\ N = 4
    /\ hist[1] = <<Text(hi)>>
    /\ Framed(2)
    /\ PlainLine(hist[3])
    /\ dispatched.lines = SubSeq(hist, 2, 4)
    /\ Len(responses) = 1

\* C2 as claimed: whatever is wrong with a framed record, the worker keeps running
\* and, after a bare end-tag line, is not collecting and has an empty buffer
C2_NoDecodeFailureEscapes ==
    (pc = "worker" /\ dispatched.tag # "" /\ outcome.kind = "raise")
    => /\ alive
       /\ BareEnd(hist[N]) => (~start_found /\ response = <<>>)

\* C3 as claimed: while collecting <T>, a line that ends in </T> after other content,
\* followed by a bare start-tag line, closes T; T is not discarded as truncated
C3_EndTagSharingLine ==
    (/\ N >= 2
     /\ BareStart(hist[N])
     /\ pre.start_found
     /\ Len(pre.response) >= 2
     /\ BareStart(pre.response[1])
     /\ pre.response[1][1].n \in ParserNames
     /\ pre.response[Len(pre.response)] = hist[N - 1]
     /\ LET l == hist[N - 1]
        IN  /\ Len(l) >= 2
            /\ l[Len(l)] = Close(pre.response[1][1].n)
            /\ ~BareEnd(SubSeq(l, 1, Len(l) - 1)))
    => /\ ~Logged(StepLog, "missing_end")
       /\ start_found
       /\ response = <<hist[N]>>

\* C4 as claimed: after <T> and one field line the stream ends: no record and
\* exactly one "missing end" diagnostic
C4_MissingEndAtStreamEnd ==
    (N = 2 /\ BareStart(hist[1]) /\ PlainLine(hist[2]))
    => /\ responses = <<>>
       /\ Cardinality({k \in 1..Len(log) : log[k].what = "missing_end"}) = 1

\* C4 amended: after <T> and one field line nothing is logged and no record is
\* produced, the two lines stay buffered; the one "missing end" diagnostic is
\* logged when a later line that ends in a bare start tag, and closes nothing, arrives
C4_MissingEndAtNextStart ==
    /\ (N = 2 /\ BareStart(hist[1]) /\ PlainLine(hist[2]))
       => /\ responses = <<>>
          /\ log = <<>>
          /\ start_found
          /\ response = hist
    /\ (N = 3 /\ BareStart(hist[1]) /\ PlainLine(hist[2]) /\ StartsRecord(hist[3]))
       => /\ responses = <<>>
          /\ log = <<Entry("warn", "missing_end")>>
          /\ start_found
          /\ response = <<SplitLine(hist[3]).tail>>

\* C4 witness: the unfinished record is discarded by the next start tag
C4_Witness ==
    /\ N = 3
    /\ hist[1] = <<Open("Warning")>>
    /\ hist[2] = Elem("Text", hi)
    /\ StartsRecord(hist[3])
    /\ log = <<Entry("warn", "missing_end")>>
    /\ responses = <<>>

\* C5: a bare end-tag line read while not collecting produces no record, hands
\* nothing to the decoder, logs exactly one "missing start" diagnostic and leaves
\* the buffer empty and collecting false, whatever the buffer held
C5_StrayEndTag ==
    (N >= 1 /\ BareEnd(hist[N]) /\ ~pre.start_found)
    => /\ dispatched = NoRecord
       /\ outcome.kind = "none"
       /\ Len(responses) = pre.nresp
       /\ StepLog = <<Entry("warn", "missing_start")>>
       /\ response = <<>>
       /\ ~start_found
       /\ alive

\* C5 witness: the end tag arrives with earlier lines in the buffer
C5_Witness ==
    /\ N >= 2
    /\ BareEnd(hist[N])
    /\ ~pre.start_found
    /\ pre.response # <<>>
    /\ response = <<>>
    /\ StepLog = <<Entry("warn", "missing_start")>>

\* the line is </A><B>: a bare end tag followed by a bare start tag
EndThenStart(line) == Len(line) = 2 /\ line[1].t = "close" /\ line[2].t = "open"

\* C29 as claimed: while collecting A (A registered), the line </A><B> hands the
\* buffered lines followed by </A> to the decoder, then starts collecting B with
\* the buffer holding <B> alone, and logs no truncation diagnostic
C29_EndAndStartOnOneLine ==
    (/\ N >= 1
     /\ EndThenStart(hist[N])
     /\ pre.start_found
     /\ pre.response # <<>>
     /\ BareStart(pre.response[1])
     /\ pre.response[1][1].n = hist[N][1].n
     /\ hist[N][1].n \in ParserNames)
    => /\ dispatched = [tag |-> hist[N][1].n,
                        lines |-> Append(pre.response, <<hist[N][1]>>)]
       /\ start_found
       /\ response = <<<<hist[N][2]>>>>
       /\ ~Logged(StepLog, "missing_end")
       /\ ~Logged(StepLog, "missing_start")

\* C30 as claimed: after any line whose text from the last '<' is a bare start tag,
\* the worker is collecting and the buffer holds that start tag alone
C30_StartTagResynchronizes ==
    (N >= 1 /\ StartMatch(SplitLine(hist[N]).tail))
    => /\ start_found
       /\ response = <<SplitLine(hist[N]).tail>>

\* no line of the sequence from the k-th on is a bare start-tag line
NoBareStartFrom(ls, k) == \A j \in k..Len(ls) : ~BareStart(ls[j])

\* while collecting, the buffer begins with a bare start-tag line and holds no
\* other bare start-tag line
CollectingFromStart ==
    start_found => /\ response # <<>>
                   /\ BareStart(response[1])
                   /\ NoBareStartFrom(response, 2)

\* the worker read the line as an end: the text before its last '<', or the
\* whole line when nothing precedes that '<', is a bare end tag
ReadAsEnd(line) == EndMatch(SplitLine(line).head, SplitLine(line).tail)

\* a raw record was handed to a decoder
Handed == dispatched.tag \in ParserNames

\* C33 as claimed: at every line boundary a collecting worker's buffer begins with
\* a bare start-tag line and holds no other one, and every raw record handed to
\* the decoder begins with a bare start-tag line, ends with a bare end-tag line
\* and contains no other bare start-tag line
C33_RecordsEndWithBareEndTag ==
    /\ CollectingFromStart
    /\ Handed => /\ BareStart(dispatched.lines[1])
                 /\ BareEnd(Last(dispatched.lines))
                 /\ NoBareStartFrom(dispatched.lines, 2)

\* C33, amended: at every line boundary a collecting worker's buffer begins with
\* a bare start-tag line and holds no other one; every raw record handed to the
\* decoder begins with a bare start-tag line, contains no other one, and ends
\* with the line the worker read as an end, which is a bare end-tag line or a
\* line with a bare end tag before its last '<'
C33_RecordsEndWithLineReadAsEnd ==
    /\ CollectingFromStart
    /\ Handed => /\ BareStart(dispatched.lines[1])
                 /\ ReadAsEnd(Last(dispatched.lines))
                 /\ NoBareStartFrom(dispatched.lines, 2)

\* C33 witness: a collecting worker with a field line in its buffer has handed
\* the decoder a record whose last line is more than a bare end tag
C33_Witness ==
    /\ Handed
    /\ ~BareEnd(Last(dispatched.lines))
    /\ pre.start_found
    /\ Len(pre.response) > 1

----------------------------------------------------------------------------
(* Properties of the record tags (specification SpecTags) *)

\* the name in the start-tag line of the raw record handed to the decoder
OpeningName == dispatched.lines[1][1].n

\* the last line made the worker put a decoded record on the output queue
Queued_now == Handed /\ outcome.kind = "ok" /\ Len(responses) = pre.nresp + 1

\* the response_type entry of a decoded record
response_type(r) == Get(r, "response_type")

\* C32: a record put on the output queue carries the response_type of the schema
\* that decoded it, the tag the end line named, which is a registered type and
\* also the name in the start-tag line of the raw record; every record on the
\* queue carries a registered type; and a raw record whose start-tag line and
\* end line name different tags is never decoded
C32_ResponseTypeIsSchemaTag ==
    /\ Queued_now => /\ response_type(Last(responses)) = TagV(dispatched.tag)
                     /\ dispatched.tag \in ParserNames
                     /\ OpeningName = dispatched.tag
    /\ \A k \in 1..Len(responses) :
           \E name \in ParserNames : response_type(responses[k]) = TagV(name)
    /\ (Handed /\ OpeningName # dispatched.tag) => outcome.kind # "ok"

\* C32 witness: a record that opens as Warning and ends with </Error></Warning>
\* was handed to the Error schema with the Text field that Error requires, and
\* was refused for the Error element left over
C32_Witness ==
    /\ Handed
    /\ dispatched.tag = "Error"
    /\ OpeningName = "Warning"
    /\ outcome.kind = "raise"
    /\ outcome.what = "UnparsedFields"
    /\ outcome.names = {"Error"}

----------------------------------------------------------------------------
(* Properties of the output queue (specification SpecStream) *)

\* the line just read handed a record to a parser, and the parser returned
Decoded_now == dispatched' # NoRecord /\ outcome'.kind = "ok"

\* one line changes the queue by at most one entry, added at the tail: the decoded
\* record when a record was dispatched and decoded, nothing otherwise
QueueStep ==
    IF Decoded_now THEN responses' = Append(responses, outcome'.value)
    ELSE responses' = responses

\* the two Warning records of the stream <Warning>, hi, </Warning><Warning>, yo,
\* </Warning> are queued in the order of their end tags
QueueOrder ==
    hist = <<<<Open("Warning")>>, Elem("Text", hi), <<Close("Warning"), Open("Warning")>>,
             Elem("Text", yo), <<Close("Warning")>>>>
    => /\ Len(responses) = 2
       /\ Get(responses[1], "Text") = StrV(hi)
       /\ Get(responses[2], "Text") = StrV(yo)

\* C28: the output queue is append-only; each line read adds at most one entry,
\* exactly one (the decoded record, at the tail) when the line dispatched a raw
\* record that decoded, none when decoding raised an error or Skip, when the type
\* was unknown or when nothing was dispatched; entries are in the order of the end
\* tags that closed them
C28_AppendOnlyQueue == [][QueueStep]_vars /\ []QueueOrder

\* C28 witness: two different records in the queue, the second one closed and
\* appended by the last line
C28_Witness ==
    /\ Len(responses) = 2
    /\ responses[1] # responses[2]
    /\ pre.nresp = 1
    /\ outcome.kind = "ok"
    /\ responses[2] = outcome.value

----------------------------------------------------------------------------
(* Properties of the decoder (specification SpecDecode) *)

Done == pc = "done"

\* the record under test as the parser sees it
X == Parser_parsexml(input.lines)

Rec(elems) == RecordLines(input.cls.name, elems)

\* the valid record of the class under test with one change made to field n
Changed(op, n) == Rec(Perturb(input.cls, ValidElems(input.cls), [op |-> op, name |-> n]))

Failed(what, names) ==
    /\ outcome.kind = "raise"
    /\ outcome.exc = "LoonError"
    /\ outcome.what = what
    /\ outcome.names = names

\* the descriptors before the i-th all succeed, and none of them carries its name
EarlierSucceed(i) ==
    LET T == input.cls.TAGS
        r == ProcessTags(SubSeq(T, 1, i - 1), 1, X.kids, ChildNames(X.kids), <<>>)
    IN  /\ \A j \in 1..(i - 1) : T[j].name # T[i].name
        /\ r.kind = "ok" \/ (r.kind = "raise" /\ r.what = "UnparsedFields")

\* the record carries values for the descriptor's name, all of them the sentinel
OnlySentinel(f) ==
    /\ X.ok
    /\ f.missing.set
    /\ Group(X.kids, f.name) # <<>>
    /\ StripMissing(f, Group(X.kids, f.name)) = <<>>

\* C6 as claimed: for every schema of the catalog, the record without the element
\* of a required descriptor fails with MissingField, and the record with every
\* element supplied and valid decodes
C6_RequiredFieldDecides ==
    (Done /\ input.cls \in Catalog)
    => /\ input.lines = Rec(ValidElems(input.cls)) => outcome.kind = "ok"
       /\ \A i \in 1..Len(input.cls.TAGS) :
              (input.cls.TAGS[i].required /\ input.lines = Changed("drop", input.cls.TAGS[i].name))
              => Failed("MissingField", {input.cls.TAGS[i].name})

Extras == ChildNames(X.kids) \ DescNames(input.cls)

\* the record without the lines of those children
WithoutExtras == SelectSeq(input.lines, LAMBDA l : ~(l[1].t = "open" /\ l[1].n \in Extras))

\* C8 as claimed: a record with an element that no descriptor consumes always ends in
\* UnparsedFields naming the element
C8_ExtraAlwaysUnparsed ==
    (Done /\ X.ok /\ Extras # {})
    => Failed("UnparsedFields", outcome.names) /\ Extras \subseteq outcome.names

\* C8 amended: a record with a child element whose name no descriptor carries never
\* decodes; it ends in UnparsedFields naming the element when the record without
\* the element decodes, and otherwise as the record without the element ends
C8_ExtraNeverDecodes ==
    (Done /\ X.ok /\ Extras # {})
    => LET without == Decode(input.cls, WithoutExtras, options)
       IN  /\ outcome.kind # "ok"
           /\ without.kind = "ok" => Failed("UnparsedFields", Extras)
           /\ without.kind # "ok" => outcome = without

\* C8 witness: an otherwise valid catalog record with one extra element
C8_Witness ==
    /\ Done
    /\ input.cls \in Catalog
    /\ input.lines = Rec(Append(ValidElems(input.cls), El("Bogus", hi)))
    /\ Failed("UnparsedFields", {"Bogus"})

\* C9 as claimed: in a schema that lists a name under two descriptors, a record with
\* one valid element for every name satisfies every required descriptor
C9_DuplicateNamesShareValues ==
    (/\ Done
     /\ \E i, j \in 1..Len(input.cls.TAGS) : i < j /\ input.cls.TAGS[i].name = input.cls.TAGS[j].name
     /\ input.lines = Rec(ValidElems(input.cls)))
    => /\ outcome.kind = "ok"
       /\ \A i \in 1..Len(input.cls.TAGS) :
              input.cls.TAGS[i].required => HasKey(outcome.value, input.cls.TAGS[i].name)

\* the decoded record holds no null
NoNull == outcome.kind = "ok" => \A k \in 1..Len(outcome.value) : outcome.value[k].v.t # "none"

Decoded(f) ==
    LET vals == StripMissing(f, Group(X.kids, f.name))
    IN  [j \in 1..Len(vals) |-> FieldParse(f.kind, vals[j]).value]

\* a decoded record holds, for each sequence descriptor, the decoded values in the
\* order of the elements
SequencesInOrder ==
    outcome.kind = "ok" =>
        \A i \in 1..Len(input.cls.TAGS) :
            LET f == input.cls.TAGS[i]
            IN  (f.sequence /\ HasKey(outcome.value, f.name))
                => Get(outcome.value, f.name) = ListV(Decoded(f))

\* C11 as claimed: a well-formed record with more than one element for a descriptor
\* that is no sequence always fails with UnexpectedSequence; a sequence descriptor
\* decodes to the list of decoded values in element order
C11_RepeatedAlwaysUnexpected ==
    (Done /\ X.ok) =>
        /\ \A i \in 1..Len(input.cls.TAGS) :
               LET f == input.cls.TAGS[i]
               IN  (~f.sequence /\ Len(Group(X.kids, f.name)) > 1)
                   => /\ outcome.kind = "raise"
                      /\ outcome.cause = "UnexpectedSequence"
                      /\ responses = <<>>
        /\ SequencesInOrder

\* C11 amended: a well-formed record with more than one element for a descriptor
\* that is no sequence, in which every earlier descriptor succeeds, fails with a
\* field-decode error naming the field, its cause UnexpectedSequence, and no record
\* is produced; whatever the earlier descriptors do, no record is produced; a
\* sequence descriptor decodes to the list of the decoded values, sentinels left
\* out, in element order
C11_RepeatedUnexpected ==
    (Done /\ X.ok) =>
        /\ \A i \in 1..Len(input.cls.TAGS) :
               LET f == input.cls.TAGS[i]
               IN  (~f.sequence /\ Len(Group(X.kids, f.name)) > 1)
                   => /\ responses = <<>>
                      /\ outcome.kind # "ok"
                      /\ EarlierSucceed(i)
                            => /\ Failed("FieldDecodeError", {f.name})
                               /\ outcome.cause = "UnexpectedSequence"
        /\ SequencesInOrder

\* C11 witness: a catalog record with two different values for a field that is no
\* sequence was rejected with UnexpectedSequence
C11_Witness ==
    /\ Done
    /\ input.cls \in Catalog
    /\ \E i \in 1..Len(input.cls.TAGS) :
           /\ ~input.cls.TAGS[i].sequence
           /\ input.lines = Changed("pair", input.cls.TAGS[i].name)
           /\ Failed("FieldDecodeError", {input.cls.TAGS[i].name})
    /\ outcome.cause = "UnexpectedSequence"
    /\ responses = <<>>

\* descriptor i is a Boolean whose one element holds text that is neither "Y" nor
\* "N" nor the descriptor's missing sentinel
InvalidBoolean(i) ==
    LET f == input.cls.TAGS[i]
        g == Group(X.kids, f.name)
    IN  /\ f.kind = "Boolean"
        /\ Len(g) = 1
        /\ g[1] \notin {<<"Y">>, <<"N">>}
        /\ f.missing.set => g[1] # f.missing.text

\* C18: a record in which a Boolean field carries text other than "Y" or "N" is
\* rejected with a MalformedValue decode error and yields no record, whether the
\* descriptor is required or optional; it is never treated as an absent field
\* (checked where every earlier descriptor of the schema succeeds)
C18_InvalidBooleanRejected ==
    (Done /\ X.ok) =>
        \A i \in 1..Len(input.cls.TAGS) :
            (InvalidBoolean(i) /\ EarlierSucceed(i))
            => /\ outcome.kind = "raise"
               /\ outcome.what = "MalformedValue" \/ outcome.cause = "MalformedValue"
               /\ outcome.what # "MissingField"
               /\ responses = <<>>

----------------------------------------------------------------------------
(* Properties of the field codecs (specification SpecCodec) *)

\* encode has been called on the value under test
Encoded == pc \in {"encoded", "back"}

Below(f, obj) == Less(obj.v, f.min)
Beyond(f, obj) == Less(f.max, obj.v)

\* C12: for an Integer or Hex descriptor with range (min, max), encoding v fails
\* with OutOfRange exactly when v < min or v > max and succeeds for every v with
\* min <= v <= max, v = min and v = max included
C12_RangeOnEncode ==
    (Encoded /\ input.f.kind \in {"Integer", "Hex"}) =>
        /\ (Below(input.f, input.obj) \/ Beyond(input.f, input.obj))
              <=> (encoded.kind = "raise" /\ encoded.exc = "LoonError"
                   /\ encoded.what = "OutOfRange")
        /\ ~(Below(input.f, input.obj) \/ Beyond(input.f, input.obj))
              <=> encoded.kind = "ok"

\* C12 witness: a value equal to the upper end of a range given in the source
\* was encoded
C12_Witness ==
    /\ Encoded
    /\ input.f.kind = "Hex"
    /\ input.f.name = "TrailingDigits"
    /\ input.obj.v = input.f.max
    /\ encoded = Ok(<<"0", "x", "f", "f">>)

\* C13: the range of an Integer or Hex descriptor is not enforced on decode:
\* well-formed wire text whose number lies outside the range decodes to that number
C13_NoRangeOnDecode ==
    (pc = "parsed" /\ input.f.kind \in {"Integer", "Hex"}
        /\ (Below(input.f, input.obj) \/ Beyond(input.f, input.obj)))
    => /\ outcome.kind = "ok"
       /\ outcome.value.t = "int"
       /\ outcome.value.v = input.obj.v

\* C13 witness: a Channel of 99 against the range 11..26 was decoded to 99
C13_Witness ==
    /\ pc = "parsed"
    /\ input.f.kind = "Integer"
    /\ input.f.name = "Channel"
    /\ input.f.min = FromInt(11) /\ input.f.max = FromInt(26)
    /\ input.text = <<"9", "9">>
    /\ outcome = Ok(IntV(FromInt(99)))

\* the number of seconds from 2000-01-01T00:00:00Z to the datetime
Offset(obj) == Sub(obj.v, FromInt(EPOCH))

\* C14: decode(encode(v)) = v for every Integer and Hex descriptor and every v
\* inside its range, for both Boolean values, and for every Date whose offset from
\* 2000-01-01T00:00:00Z is in 0..0xffffffff
C14_RoundTrip ==
    /\ (Encoded /\ input.f.kind \in {"Integer", "Hex"}
           /\ ~(Below(input.f, input.obj) \/ Beyond(input.f, input.obj)))
       => /\ encoded.kind = "ok"
          /\ pc = "back" => (outcome.kind = "ok" /\ outcome.value.v = input.obj.v)
    /\ (Encoded /\ input.f.kind = "Boolean")
       => /\ encoded.kind = "ok"
          /\ pc = "back" => outcome = Ok(input.obj)
    /\ (Encoded /\ input.f.kind = "Date"
           /\ Leq(FromInt(0), Offset(input.obj)) /\ Leq(Offset(input.obj), xFFFFFFFF))
       => /\ encoded.kind = "ok"
          /\ pc = "back" => outcome = Ok(input.obj)

\* C15: enumeration decode maps a wire token to its symbolic name, for every
\* symbolic name s of a vocabulary decode(encode(s)) = s, and decoding a token
\* that is not in the vocabulary fails with UnknownVariant
C15_EnumerationRoundTrip ==
    /\ (pc = "back" /\ input.f.kind \in EnumerationKinds /\ input.obj.t = "name")
       => (outcome.kind = "ok" /\ outcome.value.t = "name"
           /\ outcome.value.v = input.obj.v)
    /\ (pc = "parsed" /\ input.f.kind \in EnumerationKinds)
       => IF \E i \in 1..Len(LEVELS(input.f.kind)) :
                 LEVELS(input.f.kind)[i][2] = input.text
          THEN outcome.kind = "ok" /\ outcome.value.t = "name"
               /\ outcome.value.v = input.obj.v
          ELSE outcome.kind = "raise" /\ outcome.exc = "LoonError"
               /\ outcome.what = "UnknownVariant"

\* the token of the object: of a symbolic name of the vocabulary, or of an ordinal
\* i with 0 <= i < N
HasToken(L, obj, token) ==
    \E i \in 1..Len(L) :
        /\ L[i][2] = token
        /\ IF obj.t = "name" THEN L[i][1] = obj.v ELSE obj.v = FromInt(i - 1)

\* C16: enumeration encode returns the wire token of a symbolic name of the
\* vocabulary or of an ordinal i with 0 <= i < N; an unknown symbol, an ordinal
\* >= N or a negative ordinal fails with UnknownVariant and yields no token
C16_EnumerationEncode ==
    (Encoded /\ input.f.kind \in EnumerationKinds) =>
        IF \E i \in 1..Len(LEVELS(input.f.kind)) :
               HasToken(LEVELS(input.f.kind), input.obj, LEVELS(input.f.kind)[i][2])
        THEN encoded.kind = "ok"
             /\ HasToken(LEVELS(input.f.kind), input.obj, encoded.value)
        ELSE encoded.kind = "raise" /\ encoded.exc = "LoonError"
             /\ encoded.what = "UnknownVariant"

\* C17: IntervalPeriod encode maps each of the eight table durations to its index
\* 0..7 and fails with UnknownVariant for any other duration; decode maps an index
\* back, so decode(encode(d)) = d for every table duration d
C17_IntervalPeriodRoundTrip ==
    /\ (Encoded /\ input.f.kind = "IntervalPeriod") =>
           IF \E i \in 1..Len(INTERVALS) : input.obj.v = FromInt(INTERVALS[i])
           THEN /\ encoded.kind = "ok"
                /\ \E i \in 1..Len(INTERVALS) :
                       /\ input.obj.v = FromInt(INTERVALS[i])
                       /\ encoded.value = PyFormatD(IntV(FromInt(i - 1)))
                /\ pc = "back" => outcome = Ok(input.obj)
           ELSE encoded.kind = "raise" /\ encoded.exc = "LoonError"
                /\ encoded.what = "UnknownVariant"
    /\ (pc = "parsed" /\ input.f.kind = "IntervalPeriod"
           /\ Leq(FromInt(0), input.obj.v) /\ Less(input.obj.v, FromInt(Len(INTERVALS))))
       => outcome = Ok(IntV(FromInt(INTERVALS[Small(input.obj.v) + 1])))

----------------------------------------------------------------------------
(* Properties of the commands (specification SpecCommand) *)

\* the command class has been called
Called == pc \in {"method", "direct"}

\* the caller gave descriptor i a value
Supplied(i) == input.ch[i] # "none"

\* the defaults hold a value for descriptor i, the key matched without regard to case
HasDefault(i) ==
    \E e \in 1..Len(defaults) :
        lower(defaults[e].k) = lower(Key(input.cls.ARGS[i].name, "asis"))

\* the value of descriptor i for the caller alone, and with the caller's values
\* merged over the defaults
OfCaller(i) == IF Supplied(i) THEN Good(input.cls.ARGS[i]) ELSE None
Merged(i) ==
    IF Supplied(i) THEN Good(input.cls.ARGS[i])
    ELSE IF HasDefault(i) THEN Default(input.cls.ARGS[i])
    ELSE None

RECURSIVE Children(_, _, _)
\* one element per descriptor from i on that has a value in val, in schema order
Children(ARGS, val, i) ==
    IF i > Len(ARGS) THEN <<>>
    ELSE (IF val[i].t = "none" THEN <<>>
          ELSE Elem(ARGS[i].name, FieldEncode(ARGS[i], val[i], 64).value))
         \o Children(ARGS, val, i + 1)

\* the Command element with Name first and then the elements of val
CommandText(val) ==
    <<Open("Command")>> \o Elem("Name", input.cls.text)
    \o Children(input.cls.ARGS, val, 1) \o <<Close("Command")>>

\* every value the caller gave is one the codec encodes
AllGood == \A i \in 1..Len(input.cls.ARGS) : input.ch[i] # "bad"

\* C19: command encoding merges the caller's values over the stored defaults: a
\* field absent from the caller's values and present in the defaults is encoded
\* with the default's value and satisfies a required field; when both supply the
\* field the caller's value is encoded
C19_DefaultsMerged ==
    (Called /\ AllGood
        /\ \A i \in 1..Len(input.cls.ARGS) :
               input.cls.ARGS[i].required => Merged(i).t # "none")
    => encoded = Ok(CommandText([i \in 1..Len(input.cls.ARGS) |-> Merged(i)]))

\* descriptor i is required and has no value
Lacking(i) == input.cls.ARGS[i].required /\ ~Supplied(i)

\* the command class is called with the caller's values alone
Plain == pc = "method" \/ (pc = "direct" /\ defaults = <<>>)

Stops(i) == Lacking(i) \/ input.ch[i] = "bad"

Complete(text) ==
    /\ Len(text) >= 5
    /\ text[1] = Open("Command")
    /\ SubSeq(text, 2, 4) = Elem("Name", input.cls.text)
    /\ text[Len(text)] = Close("Command")

\* C21: a command is serialized completely before anything is written: when a
\* required argument is missing or a value is refused, the method raises and
\* nothing was written; when the encoding succeeds, exactly one write was made and
\* it carries the complete command
C21_EncodeBeforeWrite ==
    pc = "method"
    => IF encoded.kind = "ok"
       THEN written = <<encoded.value>> /\ Complete(encoded.value)
       ELSE encoded.kind = "raise" /\ written = <<>>

\* C21 witness: set_schedule with a Frequency out of range raises after Enabled was
\* encoded, and nothing was written
C21_Witness ==
    /\ pc = "method"
    /\ input.cls.name = "set_schedule"
    /\ input.ch = <<"asis", "asis", "bad", "asis">>
    /\ encoded.kind = "raise"
    /\ written = <<>>

----------------------------------------------------------------------------
(* Properties of the descriptor constructor (specification SpecFormatter) *)

\* the two invariants of a descriptor
RequiredMissingNeedsSkipOrSequence(f) == (f.required /\ f.missing.set) => (f.skip \/ f.sequence)
SkipNeedsMissing(f) == f.skip => f.missing.set
WellFormed(f) == RequiredMissingNeedsSkipOrSequence(f) /\ SkipNeedsMissing(f)

\* C26: every constructed descriptor satisfies (required and missing set) =>
\* (skip or sequence) and skip => missing set; a construction that violates either
\* is rejected with TypeError; every descriptor of the response catalog and of the
\* commands satisfies both
C26_DescriptorInvariants ==
    /\ pc = "built"
       => /\ encoded.kind = "ok" => /\ WellFormed(encoded.value)
                                     /\ encoded.value.required = input.required
                                     /\ encoded.value.missing = input.missing
                                     /\ encoded.value.skip = input.skip
                                     /\ encoded.value.sequence = input.sequence
          /\ ~WellFormed(input) => encoded.kind = "raise" /\ encoded.exc = "TypeError"
          /\ WellFormed(input) => encoded.kind = "ok"
    /\ \A f \in Fields : WellFormed(f)

\* C26 witness: skip=True without a missing value is rejected
C26_Witness ==
    /\ pc = "built"
    /\ input.skip
    /\ ~input.missing.set
    /\ ~input.required
    /\ encoded.kind = "raise"
    /\ encoded.exc = "TypeError"

\* the i-th descriptor finds its name in data: the record has an element of the
\* name and no earlier descriptor has popped it
Present(TAGS, names, i) ==
    /\ TAGS[i].name \in names
    /\ \A j \in 1..(i - 1) : TAGS[j].name # TAGS[i].name

\* what the descriptor f makes of the record on its own, r being what its parse
\* returns or raises for the elements of its name: ok, or the failure
\* Parser.__new__ reports for it
Verdict(found, f, r) ==
    IF ~found \/ (r.kind = "raise" /\ r.exc = "KeyError")
    THEN IF f.required THEN Raise("LoonError", "MissingField", {f.name}, "") ELSE Ok(None)
    ELSE IF r.kind = "ok" THEN Ok(None)
    ELSE IF r.exc = "LoonError" THEN Raise("LoonError", "FieldDecodeError", {f.name}, r.what)
    ELSE r

RECURSIVE Verdicts(_, _, _)
\* the verdicts of the descriptors from the i-th on, in schema order
Verdicts(TAGS, kids, i) ==
    IF i > Len(TAGS) THEN <<>>
    ELSE <<Verdict(Present(TAGS, ChildNames(kids), i), TAGS[i],
                   Formatter_parse(TAGS[i], Group(kids, TAGS[i].name)))>>
         \o Verdicts(TAGS, kids, i + 1)

\* the descriptors that do not succeed, v being the verdicts
Failing(v) == {i \in 1..Len(v) : v[i].kind # "ok"}

\* the element names no descriptor takes
Leftover(kids) == ChildNames(kids) \ DescNames(input.cls)

\* the outcome is that of the earliest of the failing descriptors bad, or, when
\* there is none, the outcome of the check for unparsed elements
EarliestDecides(v, bad, extra) ==
    IF bad # {}
    THEN outcome = v[CHOOSE i \in bad : \A j \in bad : i <= j]
    ELSE /\ extra # {} => Failed("UnparsedFields", extra)
         /\ (extra = {} /\ ~input.cls.scale) => outcome.kind = "ok"

WhenParsed(x) ==
    x.ok => EarliestDecides(Verdicts(input.cls.TAGS, x.kids, 1),
                            Failing(Verdicts(input.cls.TAGS, x.kids, 1)),
                            Leftover(x.kids))

\* C31: descriptors are processed in schema order and the first that does not
\* succeed ends decoding with its own outcome (a skip, a missing required field,
\* a field decode error), whatever later descriptors would do; the check for
\* unparsed elements decides the outcome only when every descriptor succeeded
C31_EarliestFailureWins ==
    Done => WhenParsed(X)

\* C31 witness: a ScheduleInfo record with the skip sentinel in MeterMacId and
\* without the required Mode listed after it was skipped
C31_Witness ==
    /\ Done
    /\ input.cls = ScheduleInfo
    /\ OnlySentinel(ScheduleInfo.TAGS[2])
    /\ "Mode" \notin ChildNames(X.kids)
    /\ {2, 3} \subseteq Failing(Verdicts(ScheduleInfo.TAGS, X.kids, 1))
    /\ outcome.kind = "raise" /\ outcome.exc = "SkipSignal"

----------------------------------------------------------------------------
(* Properties of the scaling extension (specification SpecScale) *)

\* the number in the scaled field n of the decoded record: the float, or the float
\* that was formatted
ScaledValue(n) ==
    IF Get(outcome.value, n).t = "float" THEN Get(outcome.value, n).v
    ELSE Get(outcome.value, n).v[1]

\* a zero scale factor counts as 1
OrOne(x) == IF x = 0 THEN 1 ELSE x

Min(a, b) == IF a < b THEN a ELSE b

\* |a - b| on magnitudes
Distance(a, b) == IF LessMag(a, b) THEN Strip(SubDigits(b, a, 0)) ELSE Strip(SubDigits(a, b, 0))

\* a <= b on magnitudes
LeqMag(a, b) == ~LessMag(b, a)

\* d is a double with a mantissa of 53 bits
Normal(d) == BitLen(d.m) = 53

\* the double d is at most half a unit of its last place away from n * 2^k / b:
\* 2 * |d.m * b * 2^d.e - n * 2^k| <= b * 2^d.e, all scaled by 2^-lo
HalfUlp(d, n, k, b, lo) ==
    LeqMag(MulAdd(Distance(ShiftLeft(MulSmall(d.m, b, 0), d.e - lo), ShiftLeft(n, k - lo)), 2, 0),
           ShiftLeft(MagOf(b), d.e - lo))

\* d is a double nearest to n * 2^k / b (zero for n = 0)
NearestTo(d, n, k, b) ==
    IF n = <<>> THEN d.m = <<>>
    ELSE Normal(d) /\ ~d.neg /\ HalfUlp(d, n, k, b, Min(d.e, k))

\* d is the whole number i
Whole(d, i) == d = Nearest(FALSE, MagOf(i), 0, FALSE)

\* C22 as claimed: Multiplier 0 and Divisor 0 count as 1, no division by zero
\* occurs, and each scaled field is raw * multiplier / divisor, the double nearest
\* to that quotient
C22_ScaledExactly ==
    pc = "done"
    => /\ outcome.kind = "ok"
       /\ \A i \in 1..Len(input.cls.NUMBERS) :
              NearestTo(ScaledValue(input.cls.NUMBERS[i]),
                        MulSmall(MagOf(input.raw), OrOne(input.multiplier), 0),
                        0, OrOne(input.divisor))

\* the scaled field n is raw times the factor q, rounded once more
TimesFactor(n, q) ==
    /\ NearestTo(q, MagOf(OrOne(input.multiplier)), 0, OrOne(input.divisor))
    /\ NearestTo(ScaledValue(n), Strip(MulSmall(q.m, input.raw, 0)), q.e, 1)

\* C22 amended: Multiplier 0 and Divisor 0 count as 1, each independently, and no
\* division by zero occurs for any pair; each scaled field is the reading times
\* the factor, where the factor is the double nearest to multiplier / divisor and
\* the product is rounded to the nearest double again; when the divisor counts as
\* 1 the field is the whole number raw * multiplier, so with both zero it keeps
\* the reading
C22_ScaledByRoundedFactor ==
    pc = "done"
    => /\ outcome.kind = "ok"
       /\ \A i \in 1..Len(input.cls.NUMBERS) :
              /\ TimesFactor(input.cls.NUMBERS[i],
                             Factor(OrOne(input.multiplier), OrOne(input.divisor)).value)
              /\ OrOne(input.divisor) = 1
                 => Whole(ScaledValue(input.cls.NUMBERS[i]),
                          input.raw * OrOne(input.multiplier))
       /\ Get(outcome.value, input.cls.NUMBERS[1]).t
              = (IF use_formatting THEN "formatted" ELSE "float")

\* C22 witness: Multiplier 0 and Divisor 10 scale the reading 3 by the double
\* nearest to 1/10, which does not give the double nearest to 3/10
C22_Witness ==
    /\ pc = "done"
    /\ input.raw = 3
    /\ input.multiplier = 0
    /\ input.divisor = 10
    /\ outcome.kind = "ok"
    /\ ScaledValue(input.cls.NUMBERS[1]) = Times(3, Quotient(1, 10))
    /\ ScaledValue(input.cls.NUMBERS[1]) # QuotientMag(FALSE, <<3>>, 10)

----------------------------------------------------------------------------
(* Properties of the threads (specification SpecThreads) *)

Alive == {w \in 1..Len(workers) : is_alive(workers[w])}

\* C23 as claimed: the worker tests the stop flag once per line; a capture thread
\* that was alive when stop_capture set the flag starts no further line read, it
\* ends at its next test of the flag
C23_CooperativeStop ==
    \A w \in 1..Len(workers) : ~workers[w].late

\* C24 as claimed: at most one capture thread is alive at any time, whatever the
\* interleaving of the callers' start_capture and stop_capture calls
C24_OneWorker == Cardinality(Alive) <= 1

\* the caller is inside set_default, before its store or deletion is done
Writing(c) == callers[c].pc = "store"
\* the caller is inside a command method, before its read of the defaults is done
Reading(c) == callers[c].pc = "defaults"

Resynchronizers ==
    [w \in 1..Len(workers) |-> <<workers[w].start_found, workers[w].response>>]

\* the step belongs to a command method of caller c
CommandStep(c) ==
    /\ callers'[c] # callers[c]
    /\ \/ callers[c].pc \in {"defaults", "encode"}
       \/ callers'[c].pc = "defaults"

\* the step is a capture thread processing a line
LineStep == hist' # hist

\* C27: a step of a command method, whether the command encodes or raises, leaves
\* the collecting flag and the buffer of every capture thread and the output
\* queue as they are, whatever the threads did before; a capture thread
\* processing a line leaves the defaults map as it is
C27_Frame ==
    [][/\ \A c \in Callers :
              CommandStep(c) => /\ Resynchronizers' = Resynchronizers
                                /\ responses' = responses
       /\ LineStep => defaults' = defaults]_vars

\* C27 witness: a command method has raised after an earlier command was written,
\* while a capture thread is collecting with lines in its buffer
C27_Witness ==
    /\ \E c \in Callers : callers[c].raised = "TypeError" /\ callers[c].cls = set_schedule
    /\ encoded.kind = "raise"
    /\ \E w \in 1..Len(workers) : workers[w].start_found /\ workers[w].response # <<>>
    /\ written # <<>>

\* the caller c has made every call so far, its last call was start_capture and
\* the call has returned without an exception
StartedLast(c) ==
    /\ callers[c].pc = "idle"
    /\ callers[c].method = "start_capture"
    /\ callers[c].raised = ""
    /\ \A d \in Callers \ {c} : callers[d].calls = 0

\* C34 as claimed: after a sequence of start_capture and stop_capture calls of
\* one caller that ends with start_capture, capture is running: a capture thread
\* is alive and the stop flag is clear
C34_StartLeavesCapturing ==
    \A c \in Callers : StartedLast(c) => (Alive # {} /\ ~stop)

====
